---- MODULE Spec2Model ----
(***************************************************************************)
(* A model of fmt_c: the bounded output buffer (fmtlib.h), the specifier   *)
(* parser and the format driver (fmt.c), and the type table, the integer   *)
(* formatters and the alignment pass (fmtlib.c).                           *)
(*                                                                         *)
(* Bytes are one-character strings; NUL is the zero byte.  A C string is   *)
(* a tuple of bytes, read through At, which yields NUL at the terminator.  *)
(* Pointers into the template are 1-based positions.  A 64-bit value slot  *)
(* is a tuple of four 16-bit limbs, least significant first.               *)
(***************************************************************************)
EXTENDS Integers, Sequences, FiniteSets, TLC

VARIABLES
  pc,               \* position of the call: which loop of fmt_format runs
  format,           \* the template (without its terminator)
  size,             \* capacity of the caller's buffer
  max_args,         \* caller-supplied bound on the argument count
  args,             \* the caller's variadic arguments (value slots)
  cursor,           \* number of va_arg reads made on args_copy
  loads,            \* history: the value-slot indices LOAD_ARG was applied to
  n,                \* fmt_format's running return value
  buf,              \* fmt_buffer_t over the caller's buffer
  single_pass,
  arg_index,
  arg_count,
  loaded_arg_count,
  arg_sizes,
  values,
  spec_index,
  pass_two_index,
  pass_two_start,
  specs,
  parsed_specs,
  ptr,
  index,            \* the second pass's specifier counter
  format_types,     \* the registry of user types
  fault             \* history: undefined behaviour executed so far

vars == <<pc, format, size, max_args, args, cursor, loads, n, buf, single_pass,
          arg_index, arg_count, loaded_arg_count, arg_sizes, values, spec_index,
          pass_two_index, pass_two_start, specs, parsed_specs, ptr, index,
          format_types, fault>>

call == <<format, size, max_args, args, cursor, loads, n, single_pass,
          arg_index, arg_count, loaded_arg_count, arg_sizes, values, spec_index,
          pass_two_index, pass_two_start, specs, parsed_specs, ptr, index,
          format_types, fault>>

(***************************************************************************)
(* Bytes                                                                   *)
(***************************************************************************)
NUL == "NUL"

Digits == <<"0", "1", "2", "3", "4", "5", "6", "7", "8", "9">>

is_digit(ch) == \E i \in 1..10 : Digits[i] = ch

DigitVal(ch) == (CHOOSE i \in 1..10 : Digits[i] = ch) - 1

Lower == {"a", "b", "c", "d", "e", "f", "g", "h", "i", "j", "k", "l", "m",
          "n", "o", "p", "q", "r", "s", "t", "u", "v", "w", "x", "y", "z"}

Upper == {"A", "B", "C", "D", "E", "F", "G", "H", "I", "J", "K", "L", "M",
          "N", "O", "P", "Q", "R", "S", "T", "U", "V", "W", "X", "Y", "Z"}

is_alpha(ch) == ch \in Lower \/ ch \in Upper

is_align(ch) == ch = "<" \/ ch = "^" \/ ch = ">"

min(a, b) == IF a < b THEN a ELSE b

max(a, b) == IF a > b THEN a ELSE b

\* *(s + i - 1) for a null-terminated string s: the terminator follows the text
At(s, i) == IF i >= 1 /\ i <= Len(s) THEN s[i] ELSE NUL

Rep(ch, k) == [i \in 1..k |-> ch]

Take(s, k) == SubSeq(s, 1, min(k, Len(s)))

\* the sequences over S of length at most k
RECURSIVE SeqsUpTo(_, _)
SeqsUpTo(S, k) ==
  IF k = 0 THEN {<<>>}
  ELSE LET R == SeqsUpTo(S, k - 1)
       IN R \cup {Append(s, x) : s \in {r \in R : Len(r) = k - 1}, x \in S}

(***************************************************************************)
(* fmt_buffer_t.  mem is the caller's region (size bytes), pos is the      *)
(* offset of b->data in it, size the bytes still usable, written the       *)
(* count.  hi is history: the highest offset a write has stored to (-1     *)
(* before any store); a store outside the region leaves mem alone and      *)
(* still moves hi.                                                         *)
(***************************************************************************)
Store(mem, off, bytes) ==
  [i \in 1..Len(mem) |->
     IF i - 1 >= off /\ i - 1 < off + Len(bytes) THEN bytes[i - off] ELSE mem[i]]

fmt_buffer(cap) ==
  [mem |-> Rep(NUL, cap), pos |-> 0, size |-> cap - 1, written |-> 0, hi |-> -1]

fmt_buffer_full(b) == b.size = 0

fmt_buffer_write_unclamped(b, data) ==
  IF b.size = 0 THEN [b |-> b, n |-> 0]
  ELSE LET k == Len(data)
       IN [b |-> [mem |-> Store(b.mem, b.pos, data),
                  pos |-> b.pos + k,
                  size |-> IF k < b.size THEN b.size - k ELSE 0,
                  written |-> b.written + k,
                  hi |-> IF k > 0 THEN max(b.hi, b.pos + k - 1) ELSE b.hi],
           n |-> k]

\* size_t fmt_buffer_write(b, data, size): data holds the size bytes to copy
fmt_buffer_write(b, data) ==
  IF b.size = 0 THEN [b |-> b, n |-> 0]
  ELSE LET k == IF Len(data) < b.size THEN Len(data) ELSE b.size
       IN [b |-> [mem |-> Store(b.mem, b.pos, SubSeq(data, 1, k)),
                  pos |-> b.pos + k,
                  size |-> b.size - k,
                  written |-> b.written + k,
                  hi |-> IF k > 0 THEN max(b.hi, b.pos + k - 1) ELSE b.hi],
           n |-> k]

fmt_buffer_write_char(b, c) ==
  IF b.size = 0 THEN [b |-> b, n |-> 0]
  ELSE [b |-> [mem |-> Store(b.mem, b.pos, <<c>>),
               pos |-> b.pos + 1,
               size |-> b.size - 1,
               written |-> b.written + 1,
               hi |-> max(b.hi, b.pos)],
        n |-> 1]

\* k calls of fmt_buffer_write_char(b, c): the calls made once the buffer is
\* full store nothing and return 0
fmt_buffer_fill(b, c, k) == fmt_buffer_write(b, Rep(c, min(max(k, 0), b.size)))

(***************************************************************************)
(* parse_fmt_spec.  A parsed_fmt_spec_t is a record; its type field is the *)
(* position in the template where the type text starts.  The parse state s *)
(* holds the function's locals; c holds its arguments: the template f, the *)
(* position base of the '{', max_args, the counters *arg_index and         *)
(* *arg_count, and the record *spec as it was before the call.             *)
(***************************************************************************)
FMT_ALIGN_LEFT == "left"
FMT_ALIGN_CENTER == "center"
FMT_ALIGN_RIGHT == "right"

FMT_FLAG_ALT == "ALT"
FMT_FLAG_UPPER == "UPPER"
FMT_FLAG_SIGN == "SIGN"
FMT_FLAG_SPACE == "SPACE"
FMT_FLAG_ZERO == "ZERO"

ZeroParsed ==
  [index |-> 0, flags |-> {}, width_or_index |-> 0, width_is_index |-> FALSE,
   precision_or_index |-> 0, precision_is_index |-> FALSE,
   align |-> FMT_ALIGN_LEFT, fill_char |-> NUL, type |-> 0, type_len |-> 0,
   valid |-> FALSE]

RECURSIVE fmtlib_atoi(_)
fmtlib_atoi(digits) ==
  IF digits = <<>> THEN 0
  ELSE 10 * fmtlib_atoi(SubSeq(digits, 1, Len(digits) - 1))
       + DigitVal(digits[Len(digits)])

RECURSIVE SkipDigits(_, _)
SkipDigits(f, p) == IF is_digit(At(f, p)) THEN SkipDigits(f, p + 1) ELSE p

read_int(f, p) ==
  LET q == SkipDigits(f, p)
  IN [val |-> fmtlib_atoi(SubSeq(f, p, q - 1)), ptr |-> q]

\* the first position at or after p that holds '}' or the terminator
RECURSIVE SkipToBrace(_, _)
SkipToBrace(f, p) ==
  IF At(f, p) = NUL \/ At(f, p) = "}" THEN p ELSE SkipToBrace(f, p + 1)

\* early_exit: the record is only marked invalid, the counters are left alone
P_early_exit(c) ==
  LET e == SkipToBrace(c.f, c.base)
  IN [m |-> (e - c.base) + (IF At(c.f, e) = "}" THEN 1 ELSE 0),
      spec |-> [c.old EXCEPT !.valid = FALSE],
      arg_index |-> c.arg_index,
      arg_count |-> c.arg_count]

P_finish(c, s, start, e) ==
  LET m1 == IF s.width_is_index THEN max(s.index, s.width_or_index) ELSE s.index
      max_arg_index == IF s.precision_is_index
                       THEN max(m1, s.precision_or_index) ELSE m1
  IN [m |-> e - c.base + 1,
      spec |-> [index |-> s.index, flags |-> s.flags,
                width_or_index |-> s.width_or_index,
                width_is_index |-> s.width_is_index,
                precision_or_index |-> s.precision_or_index,
                precision_is_index |-> s.precision_is_index,
                align |-> s.align, fill_char |-> s.fill_char,
                type |-> start, type_len |-> e - start, valid |-> TRUE],
      arg_index |-> s.new_arg_index,
      arg_count |-> max(c.arg_count, max_arg_index + 1)]

P_parse_type(c, s) ==
  LET e == SkipToBrace(c.f, s.ptr)
  IN IF At(c.f, e) = NUL THEN P_early_exit(c) ELSE P_finish(c, s, s.ptr, e)

P_parse_precision(c, s) ==
  IF At(c.f, s.ptr) # "." THEN P_parse_type(c, s)
  ELSE LET p == s.ptr + 1
       IN IF is_digit(At(c.f, p))
          THEN LET r == read_int(c.f, p)
               IN P_parse_type(c, [s EXCEPT !.ptr = r.ptr,
                                            !.precision_or_index = r.val,
                                            !.precision_is_index = FALSE])
          ELSE IF At(c.f, p) = "*"
          THEN IF At(c.f, p + 1) = NUL THEN P_early_exit(c)
               ELSE IF is_digit(At(c.f, p + 1))
               THEN LET r == read_int(c.f, p + 1)
                    IN IF r.val >= c.max_args THEN P_early_exit(c)
                       ELSE P_parse_type(c, [s EXCEPT !.ptr = r.ptr,
                                                    !.precision_or_index = r.val,
                                                    !.precision_is_index = TRUE])
               ELSE IF s.new_arg_index >= c.max_args THEN P_early_exit(c)
                    ELSE P_parse_type(c,
                           [s EXCEPT !.ptr = p + 1,
                                     !.precision_or_index = s.new_arg_index,
                                     !.precision_is_index = FALSE,
                                     !.new_arg_index = s.new_arg_index + 1])
          ELSE P_early_exit(c)

\* CHECK_EOF(ptr), then the label that follows it
P_check_eof(c, s, next) ==
  IF At(c.f, s.ptr) = "}" THEN P_parse_type(c, s)
  ELSE IF At(c.f, s.ptr) = NUL THEN P_early_exit(c)
  ELSE next

P_parse_width(c, s) ==
  IF is_digit(At(c.f, s.ptr))
  THEN LET r == read_int(c.f, s.ptr)
           s1 == [s EXCEPT !.ptr = r.ptr, !.width_or_index = r.val,
                           !.width_is_index = FALSE]
       IN P_check_eof(c, s1, P_parse_precision(c, s1))
  ELSE IF At(c.f, s.ptr) = "*"
  THEN LET p == s.ptr + 1
       IN IF At(c.f, p) = NUL THEN P_early_exit(c)
          ELSE IF is_digit(At(c.f, p))
          THEN LET r == read_int(c.f, p)
                   s1 == [s EXCEPT !.ptr = r.ptr, !.width_or_index = r.val,
                                   !.width_is_index = TRUE]
               IN IF r.val >= c.max_args THEN P_early_exit(c)
                  ELSE P_check_eof(c, s1, P_parse_precision(c, s1))
          ELSE LET s1 == [s EXCEPT !.ptr = p,
                                   !.width_or_index = s.new_arg_index,
                                   !.width_is_index = TRUE,
                                   !.new_arg_index = s.new_arg_index + 1]
               IN IF s.new_arg_index >= c.max_args THEN P_early_exit(c)
                  ELSE P_check_eof(c, s1, P_parse_precision(c, s1))
  ELSE P_check_eof(c, s, P_parse_precision(c, s))

RECURSIVE P_parse_flags(_, _)
P_parse_flags(c, s) ==
  LET ch == At(c.f, s.ptr)
  IN IF ch = "#"
     THEN P_parse_flags(c, [s EXCEPT !.flags = @ \cup {FMT_FLAG_ALT}, !.ptr = @ + 1])
     ELSE IF ch = "!"
     THEN P_parse_flags(c, [s EXCEPT !.flags = @ \cup {FMT_FLAG_UPPER}, !.ptr = @ + 1])
     ELSE IF ch = "0"
     THEN P_parse_flags(c, [s EXCEPT !.flags = @ \cup {FMT_FLAG_ZERO},
                                     !.fill_char = "0", !.ptr = @ + 1])
     ELSE IF ch = "+"
     THEN P_parse_flags(c, [s EXCEPT !.flags = @ \cup {FMT_FLAG_SIGN}, !.ptr = @ + 1])
     ELSE IF ch = " "
     THEN P_parse_flags(c, [s EXCEPT !.flags = @ \cup {FMT_FLAG_SPACE}, !.ptr = @ + 1])
     ELSE P_check_eof(c, s, P_parse_width(c, s))

\* the switch on the alignment marker, then the flags
P_align_marker(c, s) ==
  LET ch == At(c.f, s.ptr)
      s1 == IF ch = "<" THEN [s EXCEPT !.align = FMT_ALIGN_LEFT, !.ptr = @ + 1]
            ELSE IF ch = "^" THEN [s EXCEPT !.align = FMT_ALIGN_CENTER, !.ptr = @ + 1]
            ELSE IF ch = ">" THEN [s EXCEPT !.align = FMT_ALIGN_RIGHT, !.ptr = @ + 1]
            ELSE s
  IN P_check_eof(c, s1, P_parse_flags(c, [s1 EXCEPT !.flags = {}]))

P_parse_align(c, s) ==
  IF At(c.f, s.ptr) = "$"
  THEN IF At(c.f, s.ptr + 1) = NUL THEN P_early_exit(c)
       ELSE IF ~is_align(At(c.f, s.ptr + 2)) THEN P_early_exit(c)
       ELSE P_align_marker(c, [s EXCEPT !.fill_char = At(c.f, s.ptr + 1),
                                        !.ptr = @ + 2])
  ELSE P_align_marker(c, s)

\* after the index: '}' ends the specifier, ':' opens the fields
P_after_index(c, s) ==
  IF At(c.f, s.ptr) = "}" THEN P_parse_type(c, s)
  ELSE IF At(c.f, s.ptr) # ":" THEN P_early_exit(c)
  ELSE LET s1 == [s EXCEPT !.ptr = @ + 1]
           ch == At(c.f, s1.ptr)
       IN IF is_alpha(ch) THEN P_parse_type(c, s1)
          ELSE IF ch = "0" THEN P_parse_flags(c, s1)
          ELSE IF is_digit(ch) THEN P_parse_width(c, s1)
          ELSE IF ch = "." THEN P_parse_precision(c, s1)
          ELSE P_check_eof(c, s1, P_parse_align(c, s1))

P_parse_index(c, s) ==
  IF is_digit(At(c.f, s.ptr))
  THEN LET r == read_int(c.f, s.ptr)
       IN IF r.val >= c.max_args THEN P_early_exit(c)
          ELSE P_after_index(c, [s EXCEPT !.index = r.val, !.ptr = r.ptr])
  ELSE IF s.new_arg_index >= c.max_args THEN P_early_exit(c)
       ELSE P_after_index(c, [s EXCEPT !.index = s.new_arg_index,
                                       !.new_arg_index = @ + 1])

parse_fmt_spec(f, base, maxargs, argindex, argcount, old) ==
  LET c == [f |-> f, base |-> base, max_args |-> maxargs,
            arg_index |-> argindex, arg_count |-> argcount, old |-> old]
      s == [ptr |-> base + 1, index |-> 0, flags |-> {},
            width_or_index |-> 0, width_is_index |-> FALSE,
            precision_or_index |-> 0, precision_is_index |-> FALSE,
            align |-> FMT_ALIGN_LEFT, fill_char |-> " ",
            new_arg_index |-> argindex]
  IN IF At(f, base) # "{"
     THEN [m |-> 0, spec |-> old, arg_index |-> argindex, arg_count |-> argcount]
     ELSE P_check_eof(c, s, P_parse_index(c, s))


(***************************************************************************)
(* 64-bit value slots: four 16-bit limbs, least significant first.         *)
(***************************************************************************)
Limb == 65536

Zero64 == <<0, 0, 0, 0>>

\* (uint64_t)(int)a for a 32-bit int a: the conversion sign-extends
SignExtend32(a) ==
  IF a >= 0 THEN <<a % Limb, a \div Limb, 0, 0>>
  ELSE LET b == (a + 2147483647) + 1
       IN <<b % Limb, (b \div Limb) + 32768, Limb - 1, Limb - 1>>

IsNeg64(v) == v[4] >= 32768

\* -v modulo 2^64
Neg64(v) ==
  LET a1 == (Limb - 1 - v[1]) + 1
      a2 == (Limb - 1 - v[2]) + (a1 \div Limb)
      a3 == (Limb - 1 - v[3]) + (a2 \div Limb)
      a4 == (Limb - 1 - v[4]) + (a3 \div Limb)
  IN <<a1 % Limb, a2 % Limb, a3 % Limb, a4 % Limb>>

\* value / base and value % base, by long division from the top limb
DivMod64(v, base) ==
  LET c4 == v[4]
      c3 == (c4 % base) * Limb + v[3]
      c2 == (c3 % base) * Limb + v[2]
      c1 == (c2 % base) * Limb + v[1]
  IN [q |-> <<c1 \div base, c2 \div base, c3 \div base, c4 \div base>>,
      r |-> c1 % base]

Reverse(s) == [i \in 1..Len(s) |-> s[Len(s) + 1 - i]]

(***************************************************************************)
(* Number formats and u64_to_str                                           *)
(***************************************************************************)
binary_format == [base |-> 2, digits |-> <<"0", "1">>, prefix |-> <<"0", "b">>]
octal_format ==
  [base |-> 8, digits |-> <<"0", "1", "2", "3", "4", "5", "6", "7">>,
   prefix |-> <<"0", "o">>]
decimal_format == [base |-> 10, digits |-> Digits, prefix |-> <<>>]
hex_lower_format ==
  [base |-> 16,
   digits |-> <<"0", "1", "2", "3", "4", "5", "6", "7", "8", "9",
                "a", "b", "c", "d", "e", "f">>,
   prefix |-> <<"0", "x">>]
hex_upper_format ==
  [base |-> 16,
   digits |-> <<"0", "1", "2", "3", "4", "5", "6", "7", "8", "9",
                "A", "B", "C", "D", "E", "F">>,
   prefix |-> <<"0", "X">>]

\* the digits of value, least significant first, as the while loop emits them
RECURSIVE DigitsLsbFirst(_, _)
DigitsLsbFirst(value, fmt) ==
  IF value = Zero64 THEN <<>>
  ELSE LET d == DivMod64(value, fmt.base)
       IN <<fmt.digits[d.r + 1]>> \o DigitsLsbFirst(d.q, fmt)

u64_to_str(value, fmt) ==
  IF value = Zero64 THEN <<"0">> ELSE Reverse(DigitsLsbFirst(value, fmt))

(***************************************************************************)
(* fmt_spec_t and the formatters                                           *)
(***************************************************************************)
FMTLIB_MAX_WIDTH == 256
FMTLIB_MAX_TYPE_LEN == 16
TEMP_BUFFER_SIZE == FMTLIB_MAX_WIDTH + 1

\* a count no buffer of the model can hold: a negative int read as a size_t
SizeMax == 100000

AsSize(i) == IF i < 0 THEN SizeMax ELSE i

ZeroSpec ==
  [type |-> Rep(NUL, FMTLIB_MAX_TYPE_LEN + 1), type_len |-> 0, flags |-> {},
   width |-> 0, precision |-> 0, align |-> FMT_ALIGN_LEFT, fill_char |-> NUL,
   end |-> 0, value |-> Zero64, formatter |-> "NULL", argtype |-> "NONE"]

\* the writes of a while loop over the bytes of a string
RECURSIVE WriteChars(_, _)
WriteChars(b, s) ==
  IF s = <<>> THEN [b |-> b, n |-> 0]
  ELSE LET w == fmt_buffer_write_char(b, Head(s))
           r == WriteChars(w.b, Tail(s))
       IN [b |-> r.b, n |-> w.n + r.n]

\* a write's return value added to the count so far: n += fmt_buffer_write(...)
Plus(a, w) == [b |-> w.b, n |-> a.n + w.n]

\* format_integer, the sign: '-', or '+' / ' ' by flag
FI_sign(spec, is_negative, b0) ==
  IF is_negative THEN fmt_buffer_write_char(b0, "-")
  ELSE IF FMT_FLAG_SIGN \in spec.flags THEN fmt_buffer_write_char(b0, "+")
  ELSE IF FMT_FLAG_SPACE \in spec.flags THEN fmt_buffer_write_char(b0, " ")
  ELSE [b |-> b0, n |-> 0]

\* format_integer, the base prefix under FMT_FLAG_ALT
FI_prefix(spec, fmt, a) ==
  IF FMT_FLAG_ALT \in spec.flags THEN Plus(a, WriteChars(a.b, fmt.prefix)) ELSE a

\* format_integer, the zeros of the precision
FI_precision(spec, len, a) ==
  IF AsSize(spec.precision) > len
  THEN Plus(a, fmt_buffer_fill(a.b, "0", AsSize(spec.precision) - len))
  ELSE a

\* the zeros of FMT_FLAG_ZERO counted without the sign and prefix written so far
FI_zero_ignores_sign(spec, width, len, a) ==
  IF FMT_FLAG_ZERO \in spec.flags /\ width > len
  THEN Plus(a, fmt_buffer_fill(a.b, "0", width - len))
  ELSE a

\* format_integer, the zeros of FMT_FLAG_ZERO up to the width
FI_zero(spec, width, len, a) ==
  IF FMT_FLAG_ZERO \in spec.flags /\ width > len + a.n
  THEN Plus(a, fmt_buffer_fill(a.b, "0", width - len - a.n))
  ELSE a

\* format_integer, the digits
FI_digits(temp, a) == Plus(a, fmt_buffer_write(a.b, temp))

FI_result(a) == [data |-> a.b.mem, len |-> a.n]

FI_body(spec, fmt, width, is_negative, temp) ==
  FI_result(
    FI_digits(temp,
      FI_zero(spec, width, Len(temp),
        FI_precision(spec, Len(temp),
          FI_prefix(spec, fmt,
            FI_sign(spec, is_negative, fmt_buffer(TEMP_BUFFER_SIZE)))))))

FI_magnitude(spec, is_negative) ==
  IF is_negative THEN Neg64(spec.value) ELSE spec.value

FI_negative(spec, is_signed) == is_signed /\ IsNeg64(spec.value)

\* format_integer on the scratch buffer value: the scratch region and the count
format_integer(spec, is_signed, fmt) ==
  FI_body(spec, fmt, min(max(spec.width, 0), FMTLIB_MAX_WIDTH),
          FI_negative(spec, is_signed),
          u64_to_str(FI_magnitude(spec, FI_negative(spec, is_signed)), fmt))

\* apply_alignment that counts the padding it asked for, not what was stored
apply_alignment_counts_padding(b, spec, str) ==
  LET len == Len(str)
  IN IF len > AsSize(spec.width) THEN fmt_buffer_write(b, str)
     ELSE LET w == fmt_buffer_write(b, str \o Rep(spec.fill_char, spec.width - len))
          IN [b |-> w.b, n |-> spec.width]

\* apply_alignment with the left and right cases exchanged
apply_alignment_swapped(b, spec, str) ==
  IF Len(str) > AsSize(spec.width) THEN fmt_buffer_write(b, str)
  ELSE IF spec.align = FMT_ALIGN_RIGHT
  THEN fmt_buffer_write(b, str \o Rep(spec.fill_char, spec.width - Len(str)))
  ELSE IF spec.align = FMT_ALIGN_LEFT
  THEN fmt_buffer_write(b, Rep(spec.fill_char, spec.width - Len(str)) \o str)
  ELSE fmt_buffer_write(b, Rep(spec.fill_char, (spec.width - Len(str)) \div 2)
                           \o str
                           \o Rep(spec.fill_char, spec.width - Len(str)
                                                    - (spec.width - Len(str)) \div 2))

\* apply_alignment(buffer, spec, str, len): str holds the len bytes
apply_alignment(b, spec, str) ==
  LET len == Len(str)
  IN IF len > AsSize(spec.width) THEN fmt_buffer_write(b, str)
     ELSE LET padding == AsSize(spec.width) - len
              pad_char == spec.fill_char
          IN IF spec.align = FMT_ALIGN_LEFT
             THEN LET w1 == fmt_buffer_write(b, str)
                      w2 == fmt_buffer_fill(w1.b, pad_char, padding)
                  IN [b |-> w2.b, n |-> w1.n + w2.n]
             ELSE IF spec.align = FMT_ALIGN_RIGHT
             THEN LET w1 == fmt_buffer_fill(b, pad_char, padding)
                      w2 == fmt_buffer_write(w1.b, str)
                  IN [b |-> w2.b, n |-> w1.n + w2.n]
             ELSE LET w1 == fmt_buffer_fill(b, pad_char, padding \div 2)
                      w2 == fmt_buffer_write(w1.b, str)
                      w3 == fmt_buffer_fill(w2.b, pad_char, padding - padding \div 2)
                  IN [b |-> w3.b, n |-> w1.n + w2.n + w3.n]

\* apply_alignment(buffer, spec, temp, n) on what format_integer returned
AlignTemp(b, spec, r) == apply_alignment(b, spec, SubSeq(r.data, 1, r.len))

IntegerFormatter(b, spec, is_signed, fmt) ==
  AlignTemp(b, spec, format_integer(spec, is_signed, fmt))

fmtlib_format_signed(b, spec) == IntegerFormatter(b, spec, TRUE, decimal_format)

fmtlib_format_unsigned(b, spec) == IntegerFormatter(b, spec, FALSE, decimal_format)

fmtlib_format_binary(b, spec) == IntegerFormatter(b, spec, FALSE, binary_format)

fmtlib_format_octal(b, spec) == IntegerFormatter(b, spec, FALSE, octal_format)

fmtlib_format_hex(b, spec) ==
  IntegerFormatter(b, spec, FALSE,
                   IF FMT_FLAG_UPPER \in spec.flags THEN hex_upper_format
                   ELSE hex_lower_format)

(***************************************************************************)
(* fmtlib_format_double.  A double is the three fields of union double_raw:*)
(* sign, exp (11 bits) and frac (52 bits, here four limbs of 13 bits, low  *)
(* limb first).  Its magnitude is m * 2^e with the 53-bit integer m.  The  *)
(* arithmetic of format_double is done on these integers, bit by bit, with *)
(* the one rounding a double multiplication makes (to nearest, ties to     *)
(* even).  The values explored are below 2^31.                             *)
(***************************************************************************)
PRECISION_DEFAULT == 6
PRECISION_MAX == 9

FracLimb == 8192
FracBits == 52
ExpBias == 1075
ExpMax == 2047

\* bit i of the limbs l (13 bits a limb)
LimbBit(l, i) ==
  IF i \div 13 + 1 > Len(l) THEN 0 ELSE (l[i \div 13 + 1] \div (2 ^ (i % 13))) % 2

\* the number of bits of m behind the binary point
FractionBits(v) == ExpBias - (IF v.exp = 0 THEN 1 ELSE v.exp)

\* the bits a..b of the limb x whose lowest bit is bit base, moved down by lo
LimbPart(x, base, a, b, lo) ==
  IF a > b THEN 0 ELSE ((x \div (2 ^ (a - base))) % (2 ^ (b - a + 1))) * (2 ^ (a - lo))

\* the number made of the bits lo..hi of the limbs l, from limb j on
RECURSIVE BitsValue(_, _, _, _)
BitsValue(l, lo, hi, j) ==
  IF j > Len(l) THEN 0
  ELSE LimbPart(l[j], 13 * (j - 1), max(lo, 13 * (j - 1)), min(hi, 13 * j - 1), lo)
         + BitsValue(l, lo, hi, j + 1)

\* m as five limbs
MLimbs(v) == v.frac \o <<IF v.exp > 0 THEN 1 ELSE 0>>

\* (uint64_t) v.value
WholeOf(v) ==
  IF FractionBits(v) > FracBits THEN 0
  ELSE BitsValue(MLimbs(v), FractionBits(v), FracBits, 1)

\* the bits of m behind the binary point, as five limbs: v.value - (double)whole
FLimbs(v) ==
  [j \in 1..5 |->
     BitsValue(MLimbs(v), 13 * (j - 1), min(13 * j - 1, FractionBits(v) - 1), j)]

\* pow10[prec] as three limbs
Pow10Limbs(prec) ==
  <<(10 ^ prec) % FracLimb, ((10 ^ prec) \div FracLimb) % FracLimb,
    (10 ^ prec) \div (FracLimb * FracLimb)>>

\* column k of the product of the limbs a and c
RECURSIVE Column(_, _, _, _)
Column(a, c, k, j) ==
  IF j > Len(c) THEN 0
  ELSE (IF k - j + 1 \in 1..Len(a) THEN a[k - j + 1] * c[j] ELSE 0)
         + Column(a, c, k, j + 1)

\* the exact product of a and c, limb by limb with the carry
RECURSIVE Product(_, _, _, _)
Product(a, c, k, carry) ==
  IF k > Len(a) + Len(c) THEN <<>>
  ELSE <<(Column(a, c, k, 1) + carry) % FracLimb>>
         \o Product(a, c, k + 1, (Column(a, c, k, 1) + carry) \div FracLimb)

\* the highest bit set in the limbs l at or below bit i, -1 if none
TopBit(l, i) ==
  IF \A t \in 0..i : LimbBit(l, t) = 0 THEN -1
  ELSE CHOOSE t \in 0..i : LimbBit(l, t) = 1 /\ \A u \in (t + 1)..i : LimbBit(l, u) = 0

\* the multiplication rounds the product p to 53 bits: drop bits the low bits
\* and add one if they are more than half, or half with an odd result
RoundsUp(p, drop) ==
  /\ drop > 0
  /\ LimbBit(p, drop - 1) = 1
  /\ \/ LimbBit(p, drop) = 1
     \/ \E i \in 0..(drop - 2) : LimbBit(p, i) = 1

AllOnes(p, lo, hi) == \A i \in lo..hi : LimbBit(p, i) = 1

LowestZero(p, lo, hi) ==
  CHOOSE z \in lo..hi : LimbBit(p, z) = 0 /\ AllOnes(p, lo, z - 1)

\* tmp - (double)frac against 0.5, for the kept bits drop..(point - 1) behind
\* the binary point
DeltaKept(p, drop, point) ==
  IF LimbBit(p, point - 1) = 0 THEN "below"
  ELSE IF \E i \in drop..(point - 2) : LimbBit(p, i) = 1 THEN "above"
  ELSE "half"

DeltaUp(p, drop, point, z) ==
  IF z = point - 1 THEN "half"
  ELSE IF LimbBit(p, point - 1) = 1 THEN "above" ELSE "below"

\* frac = (uint64_t) tmp and delta = tmp - (double)frac for tmp = p * 2^-point
\* rounded to 53 bits
TmpRounded(p, drop, point, top) ==
  IF point <= drop
  THEN [frac |-> BitsValue(p, point, top, 1), delta |-> "below"]
  ELSE IF ~RoundsUp(p, drop)
  THEN [frac |-> BitsValue(p, point, top, 1), delta |-> DeltaKept(p, drop, point)]
  ELSE IF AllOnes(p, drop, point - 1)
  THEN [frac |-> BitsValue(p, point, top, 1) + 1, delta |-> "below"]
  ELSE [frac |-> BitsValue(p, point, top, 1),
        delta |-> DeltaUp(p, drop, point, LowestZero(p, drop, point - 1))]

TmpTop(p, point, top) == TmpRounded(p, max(0, top - FracBits), point, top)

\* double tmp = (v.value - (double)whole) * pow10[prec]
TmpOf(v, prec) ==
  TmpTop(Product(FLimbs(v), Pow10Limbs(prec), 1, 0), FractionBits(v),
         TopBit(Product(FLimbs(v), Pow10Limbs(prec), 1, 0), 13 * 8 - 1))

\* the rounding of format_double: whole and frac after it
RoundDouble(whole, t, prec) ==
  IF t.delta = "above"
  THEN (IF t.frac + 1 >= 10 ^ prec THEN [whole |-> whole + 1, frac |-> 0]
        ELSE [whole |-> whole, frac |-> t.frac + 1])
  ELSE IF t.delta = "below" THEN [whole |-> whole, frac |-> t.frac]
  ELSE IF t.frac = 0 \/ t.frac % 2 = 1 THEN [whole |-> whole, frac |-> t.frac + 1]
  ELSE [whole |-> whole, frac |-> t.frac]

\* a uint64_t below 2^31 as the limbs u64_to_str takes
U64Of(k) == <<k % Limb, k \div Limb, 0, 0>>

IsInf(v) == v.exp = ExpMax /\ v.frac = Zero64
IsNan(v) == v.exp = ExpMax /\ v.frac # Zero64
IsZero(v) == v.exp = 0 /\ v.frac = Zero64

\* format_double, the sign or space
FD_sign(spec, b0) ==
  LET s == IF spec.value.sign = 1 THEN fmt_buffer_write_char(b0, "-")
           ELSE [b |-> b0, n |-> 0]
  IN IF FMT_FLAG_SIGN \in spec.flags THEN Plus(s, fmt_buffer_write_char(s.b, "+"))
     ELSE IF FMT_FLAG_SPACE \in spec.flags THEN Plus(s, fmt_buffer_write_char(s.b, " "))
     ELSE s

\* format_double, the zeros of FMT_FLAG_ZERO up to the width
FD_zero(spec, width, len, a) ==
  IF FMT_FLAG_ZERO \in spec.flags /\ width > len + a.n
  THEN Plus(a, fmt_buffer_fill(a.b, "0", width - len - a.n))
  ELSE a

\* format_double, the trailing zeros up to the precision
FD_trailing(write_decimal, prec, frac_len, a) ==
  IF write_decimal /\ prec > frac_len
  THEN Plus(a, fmt_buffer_fill(a.b, "0", prec - frac_len))
  ELSE a

\* format_double from the intermediate buffer on
FD_temp(spec, width, prec, write_decimal, temp, frac_len, a) ==
  FI_result(
    FD_trailing(write_decimal, prec, frac_len,
      FI_digits(temp,
        FD_zero(spec, width, Len(temp), a))))

FD_text(spec, width, prec, write_decimal, whole_str, frac_str, a) ==
  IF write_decimal
  THEN FD_temp(spec, width, prec, TRUE, whole_str \o <<".">> \o frac_str,
               Len(frac_str), a)
  ELSE FD_temp(spec, width, prec, FALSE, whole_str, 0, a)

\* format_double once whole and frac are rounded
FD_rounded(spec, width, prec, r, a) ==
  FD_text(spec, width, prec, ~(r.frac = 0 /\ FMT_FLAG_ALT \in spec.flags),
          u64_to_str(U64Of(r.whole), decimal_format),
          u64_to_str(U64Of(r.frac), decimal_format), a)

\* format_double, the special encodings
FD_special(spec, a) ==
  IF IsZero(spec.value) /\ FMT_FLAG_ALT \in spec.flags
  THEN Plus(a, fmt_buffer_write_char(a.b, "0"))
  ELSE IF IsZero(spec.value)
  THEN Plus(a, fmt_buffer_write(a.b, <<"0", ".">>
                 \o Rep("0", min(IF spec.precision > 0 THEN spec.precision
                                 ELSE PRECISION_DEFAULT, PRECISION_MAX))))
  ELSE IF IsInf(spec.value)
  THEN Plus(a, fmt_buffer_write(a.b, IF FMT_FLAG_UPPER \in spec.flags
                                     THEN <<"I", "N", "F">> ELSE <<"i", "n", "f">>))
  ELSE Plus(a, fmt_buffer_write(a.b, IF FMT_FLAG_UPPER \in spec.flags
                                     THEN <<"N", "A", "N">> ELSE <<"n", "a", "n">>))

FD_body(spec, width, prec, a) ==
  IF IsInf(spec.value) \/ IsNan(spec.value) \/ IsZero(spec.value)
  THEN FI_result(FD_special(spec, a))
  ELSE FD_rounded(spec, width, prec,
                  RoundDouble(WholeOf(spec.value), TmpOf(spec.value, prec), prec), a)

\* format_double on the scratch buffer value: the scratch region and the count
format_double(spec) ==
  FD_body(spec, min(max(spec.width, 0), FMTLIB_MAX_WIDTH),
          min(IF spec.precision > 0 THEN spec.precision ELSE PRECISION_DEFAULT,
              PRECISION_MAX),
          FD_sign(spec, fmt_buffer(TEMP_BUFFER_SIZE)))

fmtlib_format_double(b, spec) == AlignTemp(b, spec, format_double(spec))

\* spec->formatter(buffer, spec)
CallFormatter(b, spec) ==
  CASE spec.formatter = "fmtlib_format_signed" -> fmtlib_format_signed(b, spec)
    [] spec.formatter = "fmtlib_format_unsigned" -> fmtlib_format_unsigned(b, spec)
    [] spec.formatter = "fmtlib_format_binary" -> fmtlib_format_binary(b, spec)
    [] spec.formatter = "fmtlib_format_octal" -> fmtlib_format_octal(b, spec)
    [] spec.formatter = "fmtlib_format_hex" -> fmtlib_format_hex(b, spec)
    [] spec.formatter = "fmtlib_format_double" -> fmtlib_format_double(b, spec)

\* fmtlib_format(buffer, spec), the dispatch fmt_format calls
fmtlib_format(b, spec) ==
  IF spec.type_len = 0 THEN apply_alignment(b, spec, <<>>)
  ELSE IF spec.formatter = "NULL" THEN [b |-> b, n |-> 0]
  ELSE CallFormatter(b, spec)

(***************************************************************************)
(* The type table: fmtlib_register_type and fmtlib_resolve_type            *)
(***************************************************************************)
FMTLIB_MAX_TYPES == 128

\* fmtlib_register_type that stores into the last slot when the table is full
fmtlib_register_type_overwrites(types, type, fn, argtype) ==
  IF Len(types) >= FMTLIB_MAX_TYPES
  THEN [types EXCEPT ![Len(types)] = [type |-> type, fn |-> fn, argtype |-> argtype]]
  ELSE Append(types, [type |-> type, fn |-> fn, argtype |-> argtype])

fmtlib_register_type(types, type, fn, argtype) ==
  IF Len(types) >= FMTLIB_MAX_TYPES THEN types
  ELSE Append(types, [type |-> type, fn |-> fn, argtype |-> argtype])

\* the string a char array holds: its bytes up to the first zero byte
RECURSIVE CStr(_)
CStr(a) == IF a = <<>> \/ Head(a) = NUL THEN <<>> ELSE <<Head(a)>> \o CStr(Tail(a))

Resolved(spec, argtype, formatter, moreflags) ==
  [found |-> TRUE,
   spec |-> [spec EXCEPT !.argtype = argtype, !.formatter = formatter,
                         !.flags = @ \cup moreflags]]

RECURSIVE FindUserType(_, _, _)
FindUserType(types, i, type) ==
  IF i > Len(types) THEN 0
  ELSE IF types[i].type = type THEN i
  ELSE FindUserType(types, i + 1, type)

ResolveUserType(types, spec) ==
  LET i == FindUserType(types, 1, CStr(spec.type))
  IN IF i > 0 THEN Resolved(spec, types[i].argtype, types[i].fn, {})
     ELSE [found |-> FALSE,
           spec |-> [spec EXCEPT !.argtype = "NONE", !.formatter = "NULL"]]

\* the built-in table of fmtlib_resolve_type; otherwise is what follows it
ResolveBuiltIn(spec, otherwise) ==
  LET t1 == spec.type[1]
      t2 == spec.type[2]
      t3 == SubSeq(spec.type, 1, 3)
  IN IF spec.type_len = 0
     THEN Resolved(spec, "NONE", "NULL", {})
     ELSE IF spec.type_len = 1 /\ t1 = "d"
     THEN Resolved(spec, "INT32", "fmtlib_format_signed", {})
     ELSE IF spec.type_len = 1 /\ t1 = "u"
     THEN Resolved(spec, "UINT32", "fmtlib_format_unsigned", {})
     ELSE IF spec.type_len = 1 /\ t1 = "b"
     THEN Resolved(spec, "UINT32", "fmtlib_format_binary", {})
     ELSE IF spec.type_len = 1 /\ t1 = "o"
     THEN Resolved(spec, "UINT32", "fmtlib_format_octal", {})
     ELSE IF spec.type_len = 1 /\ t1 = "X"
     THEN Resolved(spec, "UINT32", "fmtlib_format_hex", {FMT_FLAG_UPPER})
     ELSE IF spec.type_len = 1 /\ t1 = "x"
     THEN Resolved(spec, "UINT32", "fmtlib_format_hex", {})
     ELSE IF spec.type_len = 1 /\ t1 = "F"
     THEN Resolved(spec, "DOUBLE", "fmtlib_format_double", {FMT_FLAG_UPPER})
     ELSE IF spec.type_len = 1 /\ t1 = "f"
     THEN Resolved(spec, "DOUBLE", "fmtlib_format_double", {})
     ELSE IF spec.type_len = 1 /\ t1 = "s"
     THEN Resolved(spec, "VOIDPTR", "fmtlib_format_string", {})
     ELSE IF spec.type_len = 1 /\ t1 = "c"
     THEN \* case 'c' has no return and falls through into case 'p'
          Resolved(spec, "VOIDPTR", "fmtlib_format_hex", {FMT_FLAG_ALT})
     ELSE IF spec.type_len = 1 /\ t1 = "p"
     THEN Resolved(spec, "VOIDPTR", "fmtlib_format_hex", {FMT_FLAG_ALT})
     ELSE IF spec.type_len = 2 /\ t1 = "z" /\ t2 = "d"
     THEN Resolved(spec, "SIZE", "fmtlib_format_signed", {})
     ELSE IF spec.type_len = 2 /\ t1 = "z" /\ t2 = "u"
     THEN Resolved(spec, "SIZE", "fmtlib_format_unsigned", {})
     ELSE IF spec.type_len = 2 /\ t1 = "z" /\ t2 = "b"
     THEN Resolved(spec, "SIZE", "fmtlib_format_binary", {})
     ELSE IF spec.type_len = 2 /\ t1 = "z" /\ t2 = "o"
     THEN Resolved(spec, "SIZE", "fmtlib_format_octal", {})
     ELSE IF spec.type_len = 2 /\ t1 = "z" /\ t2 = "X"
     THEN Resolved(spec, "SIZE", "fmtlib_format_hex", {FMT_FLAG_UPPER})
     ELSE IF spec.type_len = 2 /\ t1 = "z" /\ t2 = "x"
     THEN Resolved(spec, "SIZE", "fmtlib_format_hex", {})
     ELSE IF spec.type_len = 3 /\ t3 = <<"l", "l", "d">>
     THEN Resolved(spec, "INT32", "fmtlib_format_signed", {})
     ELSE IF spec.type_len = 3 /\ t3 = <<"l", "l", "u">>
     THEN Resolved(spec, "UINT64", "fmtlib_format_unsigned", {})
     ELSE IF spec.type_len = 3 /\ t3 = <<"l", "l", "b">>
     THEN Resolved(spec, "UINT64", "fmtlib_format_binary", {})
     ELSE IF spec.type_len = 3 /\ t3 = <<"l", "l", "o">>
     THEN Resolved(spec, "UINT64", "fmtlib_format_octal", {})
     ELSE IF spec.type_len = 3 /\ t3 = <<"l", "l", "X">>
     THEN Resolved(spec, "UINT64", "fmtlib_format_hex", {FMT_FLAG_UPPER})
     ELSE IF spec.type_len = 3 /\ t3 = <<"l", "l", "x">>
     THEN Resolved(spec, "UINT64", "fmtlib_format_hex", {})
     ELSE otherwise

\* fmtlib_resolve_type that searches the registered types before the built-in table
fmtlib_resolve_type_user_first(types, spec) ==
  IF FindUserType(types, 1, CStr(spec.type)) > 0
  THEN ResolveUserType(types, spec)
  ELSE ResolveBuiltIn(spec, ResolveUserType(types, spec))

fmtlib_resolve_type(types, spec) ==
  ResolveBuiltIn(spec, ResolveUserType(types, spec))

\* the int fmt_format receives from fmtlib_resolve_type: "the size of the
\* type in bytes or -1 if the type is unknown"
ArgSize(r) ==
  IF ~r.found THEN -1
  ELSE CASE r.spec.argtype = "NONE" -> 0
         [] r.spec.argtype \in {"INT32", "UINT32"} -> 4
         [] r.spec.argtype \in {"INT64", "UINT64", "SIZE", "DOUBLE", "VOIDPTR"} -> 8


(***************************************************************************)
(* fmt_format.  One action per iteration of its loops.                     *)
(***************************************************************************)
FMT_MAX_ARGS == 3
FMT_MAX_SPECS == 2

\* va_arg(args_copy, int) widened by the (uint64_t) cast
Low32SignExtend(w) ==
  LET ext == IF w[2] >= 32768 THEN Limb - 1 ELSE 0
  IN <<w[1], w[2], ext, ext>>

\* LOAD_ARG that keeps the upper half of the slot zero for a 4-byte argument
LOAD_ARG_zero_extends(sizes, i, cur) ==
  IF sizes[i] = 4
  THEN [v |-> <<args[cur + 1][1], args[cur + 1][2], 0, 0>>, cursor |-> cur + 1]
  ELSE IF sizes[i] = 8 THEN [v |-> args[cur + 1], cursor |-> cur + 1]
  ELSE [v |-> Zero64, cursor |-> cur]

\* LOAD_ARG(i) with the cursor at cur: the slot value and the cursor after it
LOAD_ARG(sizes, i, cur) ==
  IF sizes[i] = 4 THEN [v |-> Low32SignExtend(args[cur + 1]), cursor |-> cur + 1]
  ELSE IF sizes[i] = 8 THEN [v |-> args[cur + 1], cursor |-> cur + 1]
  ELSE [v |-> Zero64, cursor |-> cur]

\* for (i = from; i < count; i++) { values[i] = LOAD_ARG(i); loaded_arg_count++; }
RECURSIVE LoadLoop(_, _, _, _, _, _)
LoadLoop(i, count, sizes, vals, cur, hist) ==
  IF i >= count THEN [values |-> vals, cursor |-> cur, loads |-> hist]
  ELSE LET l == LOAD_ARG(sizes, i, cur)
       IN LoadLoop(i + 1, count, sizes, [vals EXCEPT ![i] = l.v], l.cursor,
                   Append(hist, i))

\* the load loop started at slot 0 whatever was loaded before
LoadArgumentsFromZero(count, sizes) ==
  LoadLoop(0, count, sizes, values, cursor, loads)

\* the load loop of fmt_format, from loaded_arg_count up to count
LoadArguments(count, sizes) ==
  LoadLoop(loaded_arg_count, count, sizes, values, cursor, loads)

\* *(int *)values[i]: the slot holds the argument, not its address, so the
\* read is of whatever lies at that address, when anything is mapped there
DerefInts == {0, 3}
Deref(is_index) ==
  IF is_index
  THEN {[ok |-> TRUE, v |-> i] : i \in DerefInts} \cup {[ok |-> FALSE, v |-> 0]}
  ELSE {[ok |-> TRUE, v |-> 0]}

\* memcpy(spec->type, parsed->type, min(type_len, 16)); spec->type[type_len] = 0
CopyType(field, text) ==
  LET k == min(Len(text), FMTLIB_MAX_TYPE_LEN)
  IN [i \in 1..(FMTLIB_MAX_TYPE_LEN + 1) |->
        IF i <= k THEN text[i]
        ELSE IF i = Len(text) + 1 THEN NUL
        ELSE field[i]]

\* the type_len bytes fmt_buffer_write reads at spec->type; g stands for the
\* bytes that lie past the 17-byte field
TypeBytes(field, type_len, g) ==
  [i \in 1..type_len |-> IF i <= FMTLIB_MAX_TYPE_LEN + 1 THEN field[i] ELSE g]

GarbageBytes == {NUL, "?"}

BadTypePrefix == <<"{", "b", "a", "d", " ", "t", "y", "p", "e", ":", " ">>

\* the loop condition that gives up one byte before the buffer is full
ContinuesStopsEarly == At(format, ptr) # NUL /\ buf.size > 1

Continues == At(format, ptr) # NUL /\ ~fmt_buffer_full(buf)

AtSpecifier == At(format, ptr) = "{" /\ At(format, ptr + 1) # "{"

FirstEscape ==
  /\ pc = "first" /\ Continues
  /\ At(format, ptr) = "{" /\ At(format, ptr + 1) = "{"
  /\ LET w == IF single_pass THEN fmt_buffer_write_char(buf, "{")
              ELSE [b |-> buf, n |-> 0]
     IN buf' = w.b /\ n' = n + w.n
  /\ ptr' = ptr + 2
  /\ UNCHANGED <<pc, format, size, max_args, args, cursor, loads, single_pass,
                 arg_index, arg_count, loaded_arg_count, arg_sizes, values,
                 spec_index, pass_two_index, pass_two_start, specs,
                 parsed_specs, index, format_types, fault>>

\* if (cur_spec_index >= FMT_MAX_SPECS) continue;  -- ptr is not advanced
FirstTooMany ==
  /\ pc = "first" /\ Continues /\ AtSpecifier
  /\ spec_index >= FMT_MAX_SPECS
  /\ UNCHANGED vars

FirstLiteral ==
  /\ pc = "first" /\ Continues
  /\ At(format, ptr) # "{"
  /\ LET w == IF single_pass THEN fmt_buffer_write_char(buf, At(format, ptr))
              ELSE [b |-> buf, n |-> 0]
     IN buf' = w.b /\ n' = n + w.n
  /\ ptr' = ptr + 1
  /\ UNCHANGED <<pc, format, size, max_args, args, cursor, loads, single_pass,
                 arg_index, arg_count, loaded_arg_count, arg_sizes, values,
                 spec_index, pass_two_index, pass_two_start, specs,
                 parsed_specs, index, format_types, fault>>

\* lines 318-339: the fmt_spec_t filled from the parsed record ps, before its
\* type is resolved; text is the type text, e the position after the '}'
RecordSpec(old, ps, text, e) ==
  [old EXCEPT !.end = e,
              !.type = CopyType(@, text),
              !.type_len = ps.type_len,
              !.value = Zero64,
              !.flags = ps.flags,
              !.align = ps.align,
              !.fill_char = ps.fill_char]

\* a literal width or precision is stored in the record; one taken from an
\* argument is left for later
LiteralWidthPrecision(sp, ps) ==
  [sp EXCEPT !.width = IF ps.width_is_index THEN @ ELSE ps.width_or_index,
             !.precision = IF ps.precision_is_index THEN @
                           ELSE ps.precision_or_index]

RecordSizes(sizes, ps, arg_size) ==
  [i \in DOMAIN sizes |->
     IF ps.precision_is_index /\ i = ps.precision_or_index THEN 4
     ELSE IF ps.width_is_index /\ i = ps.width_or_index THEN 4
     ELSE IF i = ps.index THEN arg_size
     ELSE sizes[i]]

TypeStoreFault(ps) ==
  IF ps.type_len > FMTLIB_MAX_TYPE_LEN THEN {"store past spec->type"} ELSE {}

DerefFault(ps) ==
  IF ps.width_is_index \/ ps.precision_is_index
  THEN {"read through a value slot"} ELSE {}

\* the width and precision read through the value slots: dw and dp are what
\* the two reads produced
ResolveValue(sp, ps, vals, dw, dp) ==
  [sp EXCEPT !.value = vals[ps.index],
             !.width = IF ps.width_is_index THEN dw.v ELSE @,
             !.precision = IF ps.precision_is_index THEN dp.v ELSE @]

\* the three writes of the "bad type" branch
WriteBadType(b, sp, type_len, g) ==
  LET w1 == fmt_buffer_write(b, BadTypePrefix)
      w2 == fmt_buffer_write(w1.b, TypeBytes(sp.type, type_len, g))
      w3 == fmt_buffer_write_char(w2.b, "}")
  IN [b |-> w3.b, n |-> w1.n + w2.n + w3.n]

Emit(w) == buf' = w.b /\ n' = n + w.n

\* single-pass, a type with a value: load, resolve width and precision, format
FirstSpecFormat(cur, ps, sp, ld) ==
  /\ values' = ld.values
  /\ cursor' = ld.cursor
  /\ loads' = ld.loads
  /\ loaded_arg_count' = max(loaded_arg_count, arg_count')
  /\ \E dw \in Deref(ps.width_is_index), dp \in Deref(ps.precision_is_index) :
       /\ specs' = [specs EXCEPT ![cur] = ResolveValue(sp, ps, ld.values, dw, dp)]
       /\ fault' = fault \cup TypeStoreFault(ps) \cup DerefFault(ps)
       /\ IF dw.ok /\ dp.ok
          THEN /\ Emit(fmtlib_format(buf, ResolveValue(sp, ps, ld.values, dw, dp)))
               /\ pc' = pc
          ELSE /\ pc' = "fault"
               /\ UNCHANGED <<n, buf>>

\* the specifier is valid: sp is its record, arg_size what its type resolved to
FirstSpecValid(cur, ps, sp, arg_size, single) ==
  /\ arg_sizes' = RecordSizes(arg_sizes, ps, arg_size)
  /\ IF ~single
     THEN \* two-pass: the specifier is only recorded
          /\ specs' = [specs EXCEPT ![cur] = sp]
          /\ fault' = fault \cup TypeStoreFault(ps)
          /\ UNCHANGED <<pc, cursor, loads, n, buf, loaded_arg_count, values>>
     ELSE IF arg_size < 0
     THEN \* invalid type
          /\ \E g \in (IF ps.type_len > FMTLIB_MAX_TYPE_LEN + 1
                       THEN GarbageBytes ELSE {NUL}) :
               Emit(WriteBadType(buf, sp, ps.type_len, g))
          /\ specs' = [specs EXCEPT ![cur] = sp]
          /\ fault' = fault \cup TypeStoreFault(ps)
               \cup (IF ps.type_len > FMTLIB_MAX_TYPE_LEN + 1
                     THEN {"read past spec->type"} ELSE {})
          /\ UNCHANGED <<pc, cursor, loads, loaded_arg_count, values>>
     ELSE IF arg_size = 0
     THEN \* no value
          /\ Emit(fmtlib_format(buf, sp))
          /\ specs' = [specs EXCEPT ![cur] = sp]
          /\ fault' = fault \cup TypeStoreFault(ps)
          /\ UNCHANGED <<pc, cursor, loads, loaded_arg_count, values>>
     ELSE FirstSpecFormat(cur, ps, sp,
                          LoadArguments(arg_count', RecordSizes(arg_sizes, ps, arg_size)))

FirstSpecResolved(cur, ps, res, switch) ==
  /\ single_pass' = (single_pass /\ ~switch)
  /\ pass_two_start' = IF switch THEN ptr ELSE pass_two_start
  /\ pass_two_index' = IF switch THEN cur ELSE pass_two_index
  /\ FirstSpecValid(cur, ps, LiteralWidthPrecision(res.spec, ps), ArgSize(res),
                    single_pass /\ ~switch)

\* r is what parse_fmt_spec returned for the specifier at ptr
FirstSpecParsed(cur, r) ==
  /\ spec_index' = cur + 1
  /\ parsed_specs' = [parsed_specs EXCEPT ![cur] = r.spec]
  /\ arg_index' = r.arg_index
  /\ arg_count' = r.arg_count
  /\ ptr' = ptr + r.m
  /\ UNCHANGED <<format, size, max_args, args, index, format_types>>
  /\ IF ~r.spec.valid
     THEN /\ specs' = [specs EXCEPT ![cur].end = ptr + r.m]
          /\ UNCHANGED <<pc, cursor, loads, n, buf, single_pass,
                         loaded_arg_count, arg_sizes, values,
                         pass_two_index, pass_two_start, fault>>
     ELSE FirstSpecResolved(
            cur, r.spec,
            fmtlib_resolve_type(
              format_types,
              RecordSpec(specs[cur], r.spec,
                         SubSeq(format, r.spec.type, r.spec.type + r.spec.type_len - 1),
                         ptr + r.m)),
            single_pass /\ r.arg_count > r.arg_index + 1)

FirstSpec ==
  /\ pc = "first" /\ Continues /\ AtSpecifier
  /\ spec_index < FMT_MAX_SPECS
  /\ FirstSpecParsed(spec_index,
                     parse_fmt_spec(format, ptr, max_args, arg_index, arg_count,
                                    parsed_specs[spec_index]))

\* the first loop has ended in single-pass mode: return n
FirstReturn ==
  /\ pc = "first" /\ ~Continues /\ single_pass
  /\ pc' = "done"
  /\ UNCHANGED <<call, buf>>

\* the first loop has ended in two-pass mode: load the arguments and set up
\* the second pass
FirstToSecond ==
  /\ pc = "first" /\ ~Continues /\ ~single_pass
  /\ LET ld == LoadArguments(arg_count, arg_sizes)
     IN /\ values' = ld.values
        /\ cursor' = ld.cursor
        /\ loads' = ld.loads
        /\ loaded_arg_count' = max(loaded_arg_count, arg_count)
  /\ ptr' = pass_two_start
  /\ index' = pass_two_index
  /\ pc' = "second"
  /\ UNCHANGED <<format, size, max_args, args, n, buf, single_pass, arg_index,
                 arg_count, arg_sizes, spec_index, pass_two_index,
                 pass_two_start, specs, parsed_specs, format_types, fault>>

ContinuesSecond == Continues /\ index < spec_index

SecondEscape ==
  /\ pc = "second" /\ ContinuesSecond
  /\ At(format, ptr) = "{" /\ At(format, ptr + 1) = "{"
  /\ LET w == fmt_buffer_write_char(buf, "{")
     IN buf' = w.b /\ n' = n + w.n
  /\ ptr' = ptr + 2
  /\ UNCHANGED <<pc, format, size, max_args, args, cursor, loads, single_pass,
                 arg_index, arg_count, loaded_arg_count, arg_sizes, values,
                 spec_index, pass_two_index, pass_two_start, specs,
                 parsed_specs, index, format_types, fault>>

SecondSpecFormat(ps, sp) ==
  \E dw \in Deref(ps.width_is_index), dp \in Deref(ps.precision_is_index) :
    /\ specs' = [specs EXCEPT ![index] = ResolveValue(sp, ps, values, dw, dp)]
    /\ fault' = fault \cup DerefFault(ps)
    /\ IF dw.ok /\ dp.ok
       THEN /\ Emit(fmtlib_format(buf, ResolveValue(sp, ps, values, dw, dp)))
            /\ ptr' = sp.end
            /\ pc' = pc
       ELSE /\ pc' = "fault"
            /\ UNCHANGED <<n, buf, ptr>>

SecondSpec ==
  /\ pc = "second" /\ ContinuesSecond /\ AtSpecifier
  /\ index' = index + 1
  /\ UNCHANGED <<format, size, max_args, args, cursor, loads, single_pass,
                 arg_index, arg_count, loaded_arg_count, arg_sizes, values,
                 spec_index, pass_two_index, pass_two_start, parsed_specs,
                 format_types>>
  /\ IF ~parsed_specs[index].valid
     THEN \* continue: index has moved on, ptr has not
          UNCHANGED <<pc, n, buf, specs, ptr, fault>>
     ELSE SecondSpecFormat(parsed_specs[index], specs[index])

SecondLiteral ==
  /\ pc = "second" /\ ContinuesSecond
  /\ At(format, ptr) # "{"
  /\ LET w == fmt_buffer_write_char(buf, At(format, ptr))
     IN buf' = w.b /\ n' = n + w.n
  /\ ptr' = ptr + 1
  /\ UNCHANGED <<pc, format, size, max_args, args, cursor, loads, single_pass,
                 arg_index, arg_count, loaded_arg_count, arg_sizes, values,
                 spec_index, pass_two_index, pass_two_start, specs,
                 parsed_specs, index, format_types, fault>>

SecondExit ==
  /\ pc = "second" /\ ~ContinuesSecond
  /\ pc' = "tail"
  /\ UNCHANGED <<call, buf>>

\* while (*ptr && !fmt_buffer_full(&buf)) n += fmt_buffer_write_char(&buf, *ptr++)
TailLiteral ==
  /\ pc = "tail" /\ Continues
  /\ LET w == fmt_buffer_write_char(buf, At(format, ptr))
     IN buf' = w.b /\ n' = n + w.n
  /\ ptr' = ptr + 1
  /\ UNCHANGED <<pc, format, size, max_args, args, cursor, loads, single_pass,
                 arg_index, arg_count, loaded_arg_count, arg_sizes, values,
                 spec_index, pass_two_index, pass_two_start, specs,
                 parsed_specs, index, format_types, fault>>

TailReturn ==
  /\ pc = "tail" /\ ~Continues
  /\ pc' = "done"
  /\ UNCHANGED <<call, buf>>

(***************************************************************************)
(* The calls explored: templates built from a few pieces, all-int          *)
(* arguments, three capacities.                                            *)
(***************************************************************************)
MaxPieces == 3

Pieces ==
  { <<"a">>,
    <<"{", "{">>,
    <<"}", "}">>,
    <<"{", ":", "d", "}">>,
    <<"{", "1", ":", "d", "}">>,
    <<"{", "2", ":", "d", "}">>,
    <<"{", ":", "q", "}">>,
    <<"{", "!", "}">>,
    <<"{", "}">>,
    <<"{", ":", "*", "x", "}">>,
    <<"{", "0", ":", ".", "*", "1", "d", "}">>,
    <<"{", ":">> }

RECURSIVE Concat(_)
Concat(ss) == IF ss = <<>> THEN <<>> ELSE Head(ss) \o Concat(Tail(ss))

Templates == {Concat(ss) : ss \in SeqsUpTo(Pieces, MaxPieces)}

Capacities == {1, 3, 48}

ArgInts == <<7, -42, 255, -1>>

CallerArgs == [i \in 1..FMT_MAX_ARGS |-> SignExtend32(ArgInts[((i - 1) % 4) + 1])]

Init ==
  /\ pc = "first"
  /\ format \in Templates
  /\ size \in Capacities
  /\ max_args \in 0..FMT_MAX_ARGS
  /\ args = CallerArgs
  /\ cursor = 0
  /\ loads = <<>>
  /\ n = 0
  /\ buf = fmt_buffer(size)
  /\ single_pass = TRUE
  /\ arg_index = 0
  /\ arg_count = 0
  /\ loaded_arg_count = 0
  /\ arg_sizes = [i \in 0..(FMT_MAX_ARGS - 1) |-> 0]
  /\ values = [i \in 0..(FMT_MAX_ARGS - 1) |-> Zero64]
  /\ spec_index = 0
  /\ pass_two_index = 0
  /\ pass_two_start = 0
  /\ specs = [i \in 0..(FMT_MAX_SPECS - 1) |-> ZeroSpec]
  /\ parsed_specs = [i \in 0..(FMT_MAX_SPECS - 1) |-> ZeroParsed]
  /\ ptr = 1
  /\ index = 0
  /\ format_types = <<>>
  /\ fault = {}

Next ==
  \/ FirstEscape
  \/ FirstTooMany
  \/ FirstLiteral
  \/ FirstSpec
  \/ FirstReturn
  \/ FirstToSecond
  \/ SecondEscape
  \/ SecondSpec
  \/ SecondLiteral
  \/ SecondExit
  \/ TailLiteral
  \/ TailReturn

Spec == Init /\ [][Next]_vars


(***************************************************************************)
(* The buffer on its own: any sequence of writes on a fresh buffer.        *)
(***************************************************************************)
MaxCap == 6
MaxWrite == 3
BufBytes == {"a", "b"}

Idle ==
  /\ format = <<>> /\ size = 0 /\ max_args = 0 /\ args = <<>> /\ cursor = 0
  /\ loads = <<>> /\ n = 0 /\ single_pass = TRUE /\ arg_index = 0
  /\ arg_count = 0 /\ loaded_arg_count = 0 /\ arg_sizes = <<>> /\ values = <<>>
  /\ spec_index = 0 /\ pass_two_index = 0 /\ pass_two_start = 0
  /\ specs = <<>> /\ parsed_specs = <<>> /\ ptr = 1 /\ index = 0
  /\ format_types = <<>> /\ fault = {}

InitBuf ==
  /\ pc = "buffer"
  /\ Idle
  /\ \E cap \in 1..MaxCap : buf = fmt_buffer(cap)

BufWrite ==
  /\ pc = "buffer"
  /\ \E data \in SeqsUpTo(BufBytes, MaxWrite) : buf' = fmt_buffer_write(buf, data).b
  /\ UNCHANGED <<pc, call>>

BufWriteChar ==
  /\ pc = "buffer"
  /\ \E c \in BufBytes : buf' = fmt_buffer_write_char(buf, c).b
  /\ UNCHANGED <<pc, call>>

NextBuf == BufWrite \/ BufWriteChar

SpecBuf == InitBuf /\ [][NextBuf]_vars

(***************************************************************************)
(* What the claims compare the driver with.  Output is the text in the     *)
(* caller's region; Emitted the bytes one step appended to it.             *)
(***************************************************************************)
Output == SubSeq(buf.mem, 1, buf.written)

Emitted == SubSeq(buf'.mem, buf.written + 1, buf'.written)

\* the loops that write as they scan
EmittingLoop == pc \in {"second", "tail"} \/ (pc = "first" /\ single_pass)

\* the position after the first '}' at or after p, the end of the text if none
AfterBrace(p) ==
  IF At(format, SkipToBrace(format, p)) = "}" THEN SkipToBrace(format, p) + 1
  ELSE SkipToBrace(format, p)

TypeTag(ps) == SubSeq(format, ps.type, ps.type + ps.type_len - 1)

BadTypeText(ps) == BadTypePrefix \o TypeTag(ps) \o <<"}">>

\* a valid specifier with a tag of letters that is no type
UnknownType(ps, sp) ==
  /\ ps.valid /\ ps.type_len > 0
  /\ \A k \in 1..ps.type_len : is_alpha(TypeTag(ps)[k])
  /\ ~fmtlib_resolve_type(format_types, sp).found

\* the specifier at ptr has its closing brace
Closed == At(format, SkipToBrace(format, ptr)) = "}"

\* every slot up to the high-water count is the slot of a sized type
AllSlotsSized == \A i \in 0..(arg_count - 1) : arg_sizes[i] \in {4, 8}

\* the int an argument holds
AsInt(v) == IF v[2] >= 32768 THEN (v[2] - Limb) * Limb + v[1] ELSE v[2] * Limb + v[1]

\* argument i of the call, read with the size its specifier resolved to
RefArg(i, arg_size) ==
  IF arg_size = 4 THEN Low32SignExtend(args[i + 1]) ELSE args[i + 1]

RefValue(sp, ps, arg_size) ==
  [sp EXCEPT !.value = RefArg(ps.index, arg_size),
             !.width = IF ps.width_is_index THEN AsInt(args[ps.width_or_index + 1])
                       ELSE @,
             !.precision = IF ps.precision_is_index
                           THEN AsInt(args[ps.precision_or_index + 1])
                           ELSE @]

Written(w) == SubSeq(w.b.mem, 1, w.b.written)

\* the text of a valid specifier whose type resolved as res
RefRender(ps, res) ==
  IF ArgSize(res) < 0 THEN BadTypeText(ps)
  ELSE IF ArgSize(res) = 0
  THEN Written(fmtlib_format(fmt_buffer(TEMP_BUFFER_SIZE),
                             LiteralWidthPrecision(res.spec, ps)))
  ELSE Written(fmtlib_format(fmt_buffer(TEMP_BUFFER_SIZE),
                             RefValue(LiteralWidthPrecision(res.spec, ps), ps,
                                      ArgSize(res))))

RefText(ps, e) ==
  RefRender(ps, fmtlib_resolve_type(format_types,
                                    RecordSpec(ZeroSpec, ps, TypeTag(ps), e)))

\* the one-pass formatter with every argument at hand: the text of the
\* template from position i on; close says whether "}}" is an escape
RECURSIVE RefScan(_, _, _, _)
RECURSIVE RefSpec(_, _, _)
RefScan(i, ai, ac, close) ==
  IF At(format, i) = NUL THEN <<>>
  ELSE IF At(format, i) = "{" /\ At(format, i + 1) = "{"
  THEN <<"{">> \o RefScan(i + 2, ai, ac, close)
  ELSE IF At(format, i) = "{"
  THEN RefSpec(i, parse_fmt_spec(format, i, max_args, ai, ac, ZeroParsed), close)
  ELSE IF close /\ At(format, i) = "}" /\ At(format, i + 1) = "}"
  THEN <<"}">> \o RefScan(i + 2, ai, ac, close)
  ELSE <<At(format, i)>> \o RefScan(i + 1, ai, ac, close)

RefSpec(i, r, close) ==
  (IF r.spec.valid THEN RefText(r.spec, i + r.m) ELSE <<>>)
    \o RefScan(i + r.m, r.arg_index, r.arg_count, close)

FitsAndEquals(ref) == Len(ref) < size => Output = ref

(***************************************************************************)
(* The claims                                                              *)
(***************************************************************************)
\* C1: on a buffer over a region of capacity C >= 1, after any sequence of
\* fmt_buffer_write and fmt_buffer_write_char calls, the written count is at
\* most C-1, the byte at position written is 0, and no write has stored to
\* position C-1 or beyond.
C1_BufferBounded ==
  pc = "buffer" =>
    /\ buf.written <= Len(buf.mem) - 1
    /\ buf.mem[buf.written + 1] = NUL
    /\ buf.hi < Len(buf.mem) - 1

\* a full buffer that has been written to after it became full
C1_Witness ==
  /\ pc = "buffer"
  /\ Len(buf.mem) = 3
  /\ buf.written = 2
  /\ buf.size = 0
  /\ buf.mem = <<"a", "b", NUL>>

\* C2: when fmt_format returns, the value it returns is the number of bytes
\* stored in the caller's buffer (the written count, terminator excluded), in
\* single-pass and in two-pass mode.
C2_ReturnIsWritten == pc = "done" => n = buf.written

\* a two-pass call whose output was cut at the capacity
C2_Witness ==
  /\ pc = "done" /\ ~single_pass /\ size = 3 /\ n = 2
  /\ format = <<"a", "{", "1", ":", "d", "}", "{", ":", "d", "}">>
  /\ buf.mem = <<"a", "-", NUL>>

\* C3: fmt_format terminates on every template: at a specifier beyond
\* FMT_MAX_SPECS some step of the scan moves past it.
C3_BeyondCapAdvances ==
  (pc = "first" /\ Continues /\ AtSpecifier /\ spec_index >= FMT_MAX_SPECS)
    => ENABLED (Next /\ ptr' > ptr)

\* C4: the value slots are loaded in the order 0, 1, 2, ..., each once, one
\* cursor read at most per slot, never more slots than the high-water
\* argument count, before and after the switch to two-pass mode.
C4_LoadsInOrder ==
  /\ \A i \in 1..Len(loads) : loads[i] = i - 1
  /\ Len(loads) = loaded_arg_count
  /\ Len(loads) <= arg_count
  /\ cursor <= Len(loads)

\* slot 0 was loaded in single-pass mode, slots 1 and 2 after the switch
C4_Witness ==
  /\ pc = "done" /\ ~single_pass
  /\ format = <<"{", ":", "d", "}", "{", "2", ":", "d", "}">>
  /\ loads = <<0, 1, 2>>

\* C5: a call that switched to two-pass mode, names every argument it uses
\* with a sized type and whose text fits the buffer, returns with the text of
\* the one-pass formatter that has every argument at hand.
C5_TwoPassIsReference ==
  (pc = "done" /\ ~single_pass /\ fault = {} /\ AllSlotsSized)
    => FitsAndEquals(RefScan(1, 0, 0, FALSE))

\* C6: the step that handles a well-formed specifier of unknown type appends
\* "{bad type: TAG}" (cut at the capacity), in single-pass mode and in the
\* second pass.
C6_BadTypeEmitted ==
  [][/\ (pc = "first" /\ spec_index' = spec_index + 1 /\ single_pass'
           /\ UnknownType(parsed_specs'[spec_index], specs'[spec_index]))
          => Emitted = Take(BadTypeText(parsed_specs'[spec_index]), buf.size)
     /\ (pc = "second" /\ index' = index + 1
           /\ UnknownType(parsed_specs[index], specs[index]))
          => Emitted = Take(BadTypeText(parsed_specs[index]), buf.size)]_vars

\* C7: the step that handles an invalid specifier with a closing brace
\* appends nothing and leaves the scan right after that '}', in the first
\* loop and in the second pass.
C7_InvalidSkipped ==
  [][/\ (pc = "first" /\ spec_index' = spec_index + 1 /\ Closed
           /\ ~parsed_specs'[spec_index].valid)
          => (Emitted = <<>> /\ ptr' = AfterBrace(ptr))
     /\ (pc = "second" /\ index' = index + 1 /\ Closed
           /\ ~parsed_specs[index].valid)
          => (Emitted = <<>> /\ ptr' = AfterBrace(ptr))]_vars

\* C8: every specifier the parser marked valid has its value index, and its
\* width and precision index when it has one, below max_args.
C8_ValidIndicesInRange ==
  \A i \in DOMAIN parsed_specs :
    parsed_specs[i].valid =>
      /\ parsed_specs[i].index < max_args
      /\ parsed_specs[i].width_is_index => parsed_specs[i].width_or_index < max_args
      /\ parsed_specs[i].precision_is_index
           => parsed_specs[i].precision_or_index < max_args

\* C9: a step of a writing loop that finds "{{" appends one '{' and moves
\* past both bytes.
C9_OpenEscapeOnce ==
  [][(pc' = pc /\ EmittingLoop /\ Continues
        /\ At(format, ptr) = "{" /\ At(format, ptr + 1) = "{")
       => (Emitted = <<"{">> /\ ptr' = ptr + 2)]_vars

\* C10: a step of the single-pass scan, which is outside every specifier,
\* that finds "}}" appends one '}' and moves past both bytes.
C10_CloseEscapeOnce ==
  [][(pc' = pc /\ pc = "first" /\ single_pass /\ Continues
        /\ At(format, ptr) = "}" /\ At(format, ptr + 1) = "}")
       => (Emitted = <<"}">> /\ ptr' = ptr + 2)]_vars

\* the template holds no brace
NoBraces == \A i \in 1..Len(format) : format[i] # "{" /\ format[i] # "}"

\* C11: for a template without '{' and '}' and a capacity C >= 1, fmt_format
\* returns with the first min(len, C-1) bytes of the template in the buffer,
\* followed by a zero byte.
C11_LiteralCopied ==
  (pc = "done" /\ NoBraces)
    => /\ Output = Take(format, size - 1)
       /\ buf.mem[buf.written + 1] = NUL

\* a three-byte template cut to two bytes by a capacity of three
C11_Witness ==
  /\ pc = "done" /\ size = 3
  /\ format = <<"a", "a", "a">>
  /\ buf.mem = <<"a", "a", NUL>>

(***************************************************************************)
(* The library on its own: apply_alignment on any text, and parse_fmt_spec *)
(* on any single specifier.  format holds the text or the template,        *)
(* specs[0] the fmt_spec_t handed over, parsed_specs[0] the parser's       *)
(* record.                                                                 *)
(***************************************************************************)
MaxText == 3
MaxAlignWidth == 5

TextBytes == {"x", "y"}
FillBytes == {" ", "."}
Aligns == {FMT_ALIGN_LEFT, FMT_ALIGN_CENTER, FMT_ALIGN_RIGHT}
LibCapacities == {4, 48}

\* the single-specifier templates {[index][:[[$fill]align][flags][width][.precision][type]]}
IndexFields == {<<>>, <<"0">>, <<"1">>}
AlignFields == {<<>>, <<"<">>, <<"^">>, <<">">>, <<"$", ".", "<">>, <<"$", ".", ">">>}
FlagFields == {<<>>, <<"0">>, <<"+">>, <<"#">>}
WidthFields == {<<>>, <<"4">>, <<"*">>, <<"*", "0">>, <<"*", "1">>}
PrecisionFields == {<<>>, <<".", "2">>, <<".", "*">>, <<".", "*", "1">>}
TypeFields == {<<>>, <<"d">>, <<"b">>}

FieldTemplates ==
  {<<"{">> \o i \o <<"}">> : i \in IndexFields}
    \cup {<<"{">> \o i \o <<":">> \o a \o f \o w \o p \o t \o <<"}">> :
            i \in IndexFields, a \in AlignFields, f \in FlagFields,
            w \in WidthFields, p \in PrecisionFields, t \in TypeFields}

\* specifiers cut short or malformed after a '*' has taken an implicit index
BrokenTemplates ==
  {<<"{", ":", "*", "d">>, <<"{", ":", "*", ".", "x", "d", "}">>,
   <<"{", ":", ".", "*">>, <<"{", ":", "*", ".", "*", "d">>}

InitLib ==
  /\ pc = "lib"
  /\ format = <<>>
  /\ size \in LibCapacities
  /\ buf = fmt_buffer(size)
  /\ max_args \in 0..FMT_MAX_ARGS
  /\ arg_index \in 0..1
  /\ arg_count = arg_index
  /\ specs = [i \in {0} |-> ZeroSpec]
  /\ parsed_specs = [i \in {0} |-> ZeroParsed]
  /\ args = <<>> /\ cursor = 0 /\ loads = <<>> /\ n = 0 /\ single_pass = TRUE
  /\ loaded_arg_count = 0 /\ arg_sizes = <<>> /\ values = <<>>
  /\ spec_index = 0 /\ pass_two_index = 0 /\ pass_two_start = 0
  /\ ptr = 1 /\ index = 0 /\ format_types = <<>> /\ fault = {}

\* n = apply_alignment(&buf, spec, text, len)
LibAlign ==
  /\ pc = "lib"
  /\ \E text \in SeqsUpTo(TextBytes, MaxText), w \in 0..MaxAlignWidth,
        f \in FillBytes, al \in Aligns :
       /\ format' = text
       /\ specs' = [specs EXCEPT ![0] = [ZeroSpec EXCEPT !.width = w,
                                                        !.fill_char = f,
                                                        !.align = al]]
       /\ Emit(apply_alignment(buf, specs'[0], text))
  /\ pc' = "aligned"
  /\ UNCHANGED <<size, max_args, args, cursor, loads, single_pass, arg_index,
                 arg_count, loaded_arg_count, arg_sizes, values, spec_index,
                 pass_two_index, pass_two_start, parsed_specs, ptr, index,
                 format_types, fault>>

LibParsed(r) ==
  /\ parsed_specs' = [parsed_specs EXCEPT ![0] = r.spec]
  /\ arg_index' = r.arg_index
  /\ arg_count' = r.arg_count
  /\ ptr' = ptr + r.m

\* m = parse_fmt_spec(format, max_args, &arg_index, &arg_count, &parsed_specs[0])
LibParse ==
  /\ pc = "lib"
  /\ \E t \in FieldTemplates \cup BrokenTemplates :
       /\ format' = t
       /\ LibParsed(parse_fmt_spec(t, 1, max_args, arg_index, arg_count,
                                   parsed_specs[0]))
  /\ pc' = "parsed"
  /\ UNCHANGED <<size, max_args, args, cursor, loads, n, buf, single_pass,
                 loaded_arg_count, arg_sizes, values, spec_index,
                 pass_two_index, pass_two_start, specs, index, format_types,
                 fault>>

\* the integer tags, and the values, flags, widths and precisions tried
IntegerTags == {<<"d">>, <<"u">>, <<"b">>, <<"o">>, <<"x">>, <<"X">>}
IntegerValues == {SignExtend32(v) : v \in {0, 7, -7, 255, -2147483647 - 1}}
IntegerFlags ==
  SUBSET {FMT_FLAG_ALT, FMT_FLAG_UPPER, FMT_FLAG_SIGN, FMT_FLAG_SPACE, FMT_FLAG_ZERO}
IntegerWidths == {0, 4, 6}
IntegerPrecisions == {0, 3}

\* the fmt_spec_t fmt_format builds for a tag, before the type is resolved
LibSpec(tag, v, fl, w, p, al) ==
  [ZeroSpec EXCEPT !.type = CopyType(@, tag), !.type_len = Len(tag),
                   !.value = v, !.flags = fl, !.width = w, !.precision = p,
                   !.align = al, !.fill_char = " "]

\* fmtlib_resolve_type(&spec); n = fmtlib_format(&buf, &spec)
LibInteger ==
  /\ pc = "lib"
  /\ \E tag \in IntegerTags, v \in IntegerValues, fl \in IntegerFlags,
        w \in IntegerWidths, p \in IntegerPrecisions, al \in Aligns :
       /\ format' = tag
       /\ specs' = [specs EXCEPT ![0] =
                      fmtlib_resolve_type(format_types,
                                          LibSpec(tag, v, fl, w, p, al)).spec]
       /\ Emit(fmtlib_format(buf, specs'[0]))
  /\ pc' = "integer"
  /\ UNCHANGED <<size, max_args, args, cursor, loads, single_pass, arg_index,
                 arg_count, loaded_arg_count, arg_sizes, values, spec_index,
                 pass_two_index, pass_two_start, parsed_specs, ptr, index,
                 format_types, fault>>

NextLib ==
  \/ LibAlign
  \/ LibParse

SpecLib == InitLib /\ [][NextLib]_vars

\* the integer formatters on their own, with no argument list
InitInt == InitLib /\ max_args = 0 /\ arg_index = 0

NextInt == LibInteger

SpecInt == InitInt /\ [][NextInt]_vars

\* text of length len in a field of width w, fill f, alignment al
AlignedText(text, w, f, al) ==
  IF Len(text) >= w THEN text
  ELSE IF al = FMT_ALIGN_LEFT THEN text \o Rep(f, w - Len(text))
  ELSE IF al = FMT_ALIGN_RIGHT THEN Rep(f, w - Len(text)) \o text
  ELSE Rep(f, (w - Len(text)) \div 2) \o text
         \o Rep(f, (w - Len(text)) - (w - Len(text)) \div 2)

\* the specifier names no fill, no alignment and no zero padding
NoMarker ==
  /\ \A i \in 1..Len(format) : format[i] \notin {"<", "^", ">", "$"}
  /\ FMT_FLAG_ZERO \notin parsed_specs[0].flags

LongType(k) == <<"{", ":">> \o [i \in 1..k |-> "t"] \o <<"}">>

FieldSpecifiers ==
  { LongType(FMTLIB_MAX_TYPE_LEN), LongType(FMTLIB_MAX_TYPE_LEN + 1),
    LongType(FMTLIB_MAX_TYPE_LEN + 2),
    <<"{", ":", "d", "}">>,
    <<"{", ":", "4", "d", "}">>,
    <<"{", ":", "<", "4", "d", "}">>,
    <<"{", ":", "^", "4", "d", "}">>,
    <<"{", ":", ">", "4", "d", "}">>,
    <<"{", ":", "$", ".", ">", "*", "b", "}">>,
    <<"{", "1", ":", "$", ".", "<", "*", "0", "b", "}">>,
    <<"{", ":", "*", "d", "}">>,
    <<"{", ":", "*", "1", "d", "}">>,
    <<"{", ":", ".", "*", "d", "}">>,
    <<"{", ":", ".", "*", "1", "d", "}">>,
    <<"{", ":", ".", "3", "d", "}">>,
    <<"{", ":", "#", "x", "}">>,
    <<"{", ":", "!", "x", "}">>,
    <<"{", ":", "0", "3", "d", "}">>,
    <<"{", ":", "0", "4", "d", "}">>,
    <<"{", ":", "+", "0", "4", "d", "}">>,
    <<"{", ":", " ", "d", "}">>,
    <<"{", ":", "#", "0", "6", "x", "}">>,
    <<"{", ":", "+", ".", "3", "d", "}">>,
    <<"{", ":", "0", "6", ".", "3", "d", "}">>,
    <<"{", ":", "#", "b", "}">>,
    <<"{", ":", "#", "o", "}">>,
    <<"{", ":", "u", "}">>,
    <<"{", ":", "X", "}">> }

\* what surrounds a specifier in a template
FieldPieces ==
  { <<"a">>, <<"{", "{">>, <<"{", ":", "d", "}">>, <<"{", "1", ":", "d", "}">> }

FieldTemplatesOfCalls ==
  FieldSpecifiers \cup {Concat(ss) : ss \in SeqsUpTo(FieldPieces, MaxPieces)}

FieldInts ==
  { <<42, 0, 0, 0>>, <<-42, 0, 0, 0>>, <<7, 0, 0, 0>>, <<-7, 0, 0, 0>>,
    <<5, 15, 0, 0>>, <<15, 5, 0, 0>>, <<0, 3, 0, 0>>, <<-2147483647 - 1, 0, 0, 0>>,
    <<2147483647, 0, 0, 0>> }

\* the caller's integers as the variadic arguments
ArgsOf(v) == [i \in 1..FMT_MAX_ARGS |-> SignExtend32(v[((i - 1) % 4) + 1])]

FieldArgs == {ArgsOf(v) : v \in FieldInts}

InitFields ==
  /\ pc = "first"
  /\ format \in FieldTemplatesOfCalls
  /\ size \in Capacities
  /\ max_args = FMT_MAX_ARGS
  /\ args \in FieldArgs
  /\ cursor = 0
  /\ loads = <<>>
  /\ n = 0
  /\ buf = fmt_buffer(size)
  /\ single_pass = TRUE
  /\ arg_index = 0
  /\ arg_count = 0
  /\ loaded_arg_count = 0
  /\ arg_sizes = [i \in 0..(FMT_MAX_ARGS - 1) |-> 0]
  /\ values = [i \in 0..(FMT_MAX_ARGS - 1) |-> Zero64]
  /\ spec_index = 0
  /\ pass_two_index = 0
  /\ pass_two_start = 0
  /\ specs = [i \in 0..(FMT_MAX_SPECS - 1) |-> ZeroSpec]
  /\ parsed_specs = [i \in 0..(FMT_MAX_SPECS - 1) |-> ZeroParsed]
  /\ ptr = 1
  /\ index = 0
  /\ format_types = <<>>
  /\ fault = {}

SpecFields == InitFields /\ [][Next]_vars

\* the call returned with room to spare for the template and integers given
Called(f, v) ==
  pc = "done" /\ size = 48 /\ format = f /\ args = ArgsOf(v)

\* C13: as the test suite states it, without a marker the fill precedes the
\* digits ({:4d} of 42 is two spaces then 42), with '>' the digits come first
\* ({:>4d} of 42 is 42 then two spaces, {:$.>*b} of (5, 15) is 101 then twelve
\* dots) and with '<' the fill precedes ({1:$.<*0b} of (15, 5) is twelve dots
\* then 101).
C13_TestSuiteAlignment ==
  /\ Called(<<"{", ":", "4", "d", "}">>, <<42, 0, 0, 0>>)
       => Output = <<" ", " ", "4", "2">>
  /\ Called(<<"{", ":", ">", "4", "d", "}">>, <<42, 0, 0, 0>>)
       => Output = <<"4", "2", " ", " ">>
  /\ Called(<<"{", ":", "$", ".", ">", "*", "b", "}">>, <<5, 15, 0, 0>>)
       => Output = <<"1", "0", "1">> \o Rep(".", 12)
  /\ Called(<<"{", "1", ":", "$", ".", "<", "*", "0", "b", "}">>, <<15, 5, 0, 0>>)
       => Output = Rep(".", 12) \o <<"1", "0", "1">>

\* the parts of the text of an integer: spec is the resolved specifier, tag its type
IntNegative(tag, spec) == tag = <<"d">> /\ IsNeg64(spec.value)

IntSign(tag, spec) ==
  IF IntNegative(tag, spec) THEN <<"-">>
  ELSE IF FMT_FLAG_SIGN \in spec.flags THEN <<"+">>
  ELSE IF FMT_FLAG_SPACE \in spec.flags THEN <<" ">>
  ELSE <<>>

IntBase(tag, spec) ==
  CASE tag \in {<<"d">>, <<"u">>} -> decimal_format
    [] tag = <<"b">> -> binary_format
    [] tag = <<"o">> -> octal_format
    [] tag = <<"X">> -> hex_upper_format
    [] tag = <<"x">> -> IF FMT_FLAG_UPPER \in spec.flags THEN hex_upper_format
                        ELSE hex_lower_format

IntPrefix(tag, spec) ==
  IF FMT_FLAG_ALT \in spec.flags THEN IntBase(tag, spec).prefix ELSE <<>>

IntDigits(tag, spec) ==
  u64_to_str(IF IntNegative(tag, spec) THEN Neg64(spec.value) ELSE spec.value,
             IntBase(tag, spec))

\* the digits with the zeros of the precision in front
IntPadded(tag, spec) ==
  Rep("0", max(0, spec.precision - Len(IntDigits(tag, spec)))) \o IntDigits(tag, spec)

\* the length without the zeros of the ZERO flag
IntBareLen(tag, spec) ==
  Len(IntSign(tag, spec)) + Len(IntPrefix(tag, spec)) + Len(IntPadded(tag, spec))

IntZeros(tag, spec) ==
  IF FMT_FLAG_ZERO \in spec.flags /\ spec.width > IntBareLen(tag, spec)
  THEN Rep("0", spec.width - IntBareLen(tag, spec)) ELSE <<>>

IntComposed(tag, spec) ==
  IntSign(tag, spec) \o IntPrefix(tag, spec) \o IntZeros(tag, spec) \o IntPadded(tag, spec)

\* C14: every integer formatter (d, u, b, o, x, X) composes sign, prefix, zeros
\* and digits in that order: the sign is '-' for a negative value, else '+'
\* under SIGN, else ' ' under SPACE, else nothing; the prefix is there only
\* under ALT; under ZERO with a width beyond the composed length the '0'
\* padding stands after sign and prefix and before the digits and brings the
\* text to the width.
C14_IntegerComposition ==
  pc = "integer"
    => /\ Output = Take(AlignedText(IntComposed(format, specs[0]), specs[0].width,
                                    specs[0].fill_char, specs[0].align), size - 1)
       /\ (FMT_FLAG_ZERO \in specs[0].flags /\ specs[0].width > IntBareLen(format, specs[0])
             /\ size > specs[0].width)
            => /\ Len(Output) = specs[0].width
               /\ Take(Output, Len(IntSign(format, specs[0]) \o IntPrefix(format, specs[0])))
                    = IntSign(format, specs[0]) \o IntPrefix(format, specs[0])

\* -7 under {:04d} is -007
C14_Witness ==
  /\ pc = "integer" /\ format = <<"d">>
  /\ specs[0].value = SignExtend32(-7) /\ specs[0].flags = {FMT_FLAG_ZERO}
  /\ specs[0].width = 4 /\ specs[0].precision = 0
  /\ Output = <<"-", "0", "0", "7">>

\* reading a decimal text back: v * 10 + d modulo 2^64
MulAdd64(v, d) ==
  LET a1 == v[1] * 10 + d
      a2 == v[2] * 10 + (a1 \div Limb)
      a3 == v[3] * 10 + (a2 \div Limb)
      a4 == v[4] * 10 + (a3 \div Limb)
  IN <<a1 % Limb, a2 % Limb, a3 % Limb, a4 % Limb>>

RECURSIVE ParseDigits(_, _)
ParseDigits(text, acc) ==
  IF text = <<>> THEN acc
  ELSE ParseDigits(Tail(text), MulAdd64(acc, DigitVal(Head(text))))

\* an optional '-' and at least one digit
IsDecimal(text) ==
  LET body == IF text # <<>> /\ Head(text) = "-" THEN Tail(text) ELSE text
  IN body # <<>> /\ \A i \in 1..Len(body) : is_digit(body[i])

ParseDecimal(text) ==
  IF Head(text) = "-" THEN Neg64(ParseDigits(Tail(text), Zero64))
  ELSE ParseDigits(text, Zero64)

\* C15: round trip: a 32-bit signed integer n, the minimum and 0 included,
\* formatted with {:d} and read back as a decimal is n again.
C15_RoundTrip ==
  (pc = "done" /\ size = 48 /\ format = <<"{", ":", "d", "}">>)
    => /\ IsDecimal(Output)
       /\ ParseDecimal(Output) = args[1]

\* the minimum 32-bit value
C15_Witness ==
  /\ Called(<<"{", ":", "d", "}">>, <<-2147483647 - 1, 0, 0, 0>>)
  /\ Output = <<"-", "2", "1", "4", "7", "4", "8", "3", "6", "4", "8">>

\* C16: in a width field '*' alone takes the width from the argument at the
\* next implicit index and advances the implicit counter by one, '*N' takes it
\* from argument N and leaves the counter alone, and the width used for
\* formatting is the integer value of that argument.
C16_StarWidth ==
  \A v \in FieldInts :
    /\ Called(<<"{", ":", "*", "d", "}">>, v)
         => /\ parsed_specs[0].width_is_index
            /\ parsed_specs[0].index = 0 /\ parsed_specs[0].width_or_index = 1
            /\ arg_index = 2
            /\ specs[0].width = v[2]
    /\ Called(<<"{", ":", "*", "1", "d", "}">>, v)
         => /\ parsed_specs[0].width_is_index
            /\ parsed_specs[0].index = 0 /\ parsed_specs[0].width_or_index = 1
            /\ arg_index = 1
            /\ specs[0].width = v[2]

\* C17: in a precision field '.*' alone takes the precision from the value of
\* the argument at the next implicit index, which is counted in the high-water
\* mark and loaded from the cursor, and advances the implicit counter; '.*N'
\* takes the precision from the value of argument N.
C17_StarPrecision ==
  \A v \in FieldInts :
    /\ Called(<<"{", ":", ".", "*", "d", "}">>, v)
         => /\ parsed_specs[0].index = 0
            /\ arg_index = 2 /\ arg_count = 2 /\ cursor = 2
            /\ specs[0].precision = v[2]
    /\ Called(<<"{", ":", ".", "*", "1", "d", "}">>, v)
         => /\ parsed_specs[0].index = 0
            /\ arg_index = 1 /\ arg_count = 2 /\ cursor = 2
            /\ specs[0].precision = v[2]

(***************************************************************************)
(* The type table on its own: any sequence of fmtlib_register_type calls,  *)
(* and fmtlib_resolve_type of a tag against the table reached.  format     *)
(* holds the tag resolved, specs[0] the specifier after the call and n the *)
(* value returned.                                                         *)
(***************************************************************************)
MaxChosen == 2

BuiltInTags ==
  { <<"d">>, <<"u">>, <<"b">>, <<"o">>, <<"x">>, <<"X">>, <<"f">>, <<"F">>,
    <<"s">>, <<"c">>, <<"p">>,
    <<"z", "d">>, <<"z", "u">>, <<"z", "b">>, <<"z", "o">>, <<"z", "x">>, <<"z", "X">>,
    <<"l", "l", "d">>, <<"l", "l", "u">>, <<"l", "l", "b">>, <<"l", "l", "o">>,
    <<"l", "l", "x">>, <<"l", "l", "X">> }

\* the registrations a caller makes: the tag of the test suite under two
\* formatters, two tags of the built-in table, and one more tag
UserEntries ==
  { [type |-> <<"t", "e", "s", "t">>, fn |-> "my_formatter", argtype |-> "VOIDPTR"],
    [type |-> <<"t", "e", "s", "t">>, fn |-> "other_formatter", argtype |-> "INT32"],
    [type |-> <<"d">>, fn |-> "my_formatter", argtype |-> "VOIDPTR"],
    [type |-> <<"s">>, fn |-> "other_formatter", argtype |-> "INT32"],
    [type |-> <<"q">>, fn |-> "other_formatter", argtype |-> "INT32"] }

\* the registration repeated until the table is full
FillerEntry == [type |-> <<"w">>, fn |-> "filler_formatter", argtype |-> "UINT64"]

UserTags == {e.type : e \in UserEntries} \cup {FillerEntry.type}

RegistrationsAt(len) ==
  IF len < MaxChosen \/ len >= FMTLIB_MAX_TYPES THEN UserEntries \cup {FillerEntry}
  ELSE {FillerEntry}

InitReg == InitLib /\ max_args = 0 /\ arg_index = 0 /\ size = 48

\* fmtlib_register_type(e.type, e.fn, e.argtype)
RegRegister ==
  /\ pc = "lib"
  /\ \E e \in RegistrationsAt(Len(format_types)) :
       format_types' = fmtlib_register_type(format_types, e.type, e.fn, e.argtype)
  /\ UNCHANGED <<pc, format, size, max_args, args, cursor, loads, n, buf,
                 single_pass, arg_index, arg_count, loaded_arg_count, arg_sizes,
                 values, spec_index, pass_two_index, pass_two_start, specs,
                 parsed_specs, ptr, index, fault>>

RegResolved(res) ==
  /\ specs' = [specs EXCEPT ![0] = res.spec]
  /\ n' = IF res.found THEN 1 ELSE 0

\* n = fmtlib_resolve_type(&spec) for a specifier with the tag and no flags
RegResolve ==
  /\ pc = "lib"
  /\ \E tag \in BuiltInTags \cup UserTags :
       /\ format' = tag
       /\ RegResolved(fmtlib_resolve_type(
                        format_types,
                        LibSpec(tag, Zero64, {}, 0, 0, FMT_ALIGN_LEFT)))
  /\ pc' = "resolved"
  /\ UNCHANGED <<size, max_args, args, cursor, loads, buf, single_pass,
                 arg_index, arg_count, loaded_arg_count, arg_sizes, values,
                 spec_index, pass_two_index, pass_two_start, parsed_specs, ptr,
                 index, format_types, fault>>

NextReg ==
  \/ RegRegister
  \/ RegResolve

SpecReg == InitReg /\ [][NextReg]_vars

\* the built-in table as documented: the kinds and the formatter of a tag
TableKinds(tag) ==
  IF Len(tag) = 3 THEN {"INT64", "UINT64"}
  ELSE IF Len(tag) = 2 THEN {"SIZE"}
  ELSE IF tag \in {<<"f">>, <<"F">>} THEN {"DOUBLE"}
  ELSE IF tag \in {<<"s">>, <<"p">>} THEN {"VOIDPTR"}
  ELSE IF tag = <<"c">> THEN {"INT32"}
  ELSE {"INT32", "UINT32"}

TableFormatter(tag) ==
  LET last == tag[Len(tag)]
  IN CASE last = "d" -> "fmtlib_format_signed"
       [] last = "u" -> "fmtlib_format_unsigned"
       [] last = "b" -> "fmtlib_format_binary"
       [] last = "o" -> "fmtlib_format_octal"
       [] last \in {"x", "X", "p"} -> "fmtlib_format_hex"
       [] last \in {"f", "F"} -> "fmtlib_format_double"
       [] last = "s" -> "fmtlib_format_string"
       [] last = "c" -> "fmtlib_format_char"

\* C18: every built-in tag resolves to the kind and formatter of the built-in
\* table: d/u/b/o/x/X to 32-bit kinds, every ll tag to a 64-bit kind, every z
\* tag to the size kind, f/F to double, s to pointer with the string formatter,
\* c to int32 with the single-character formatter, p to pointer with the
\* lower-hex formatter and ALT forced.
C18_BuiltInTable ==
  (pc = "resolved" /\ format \in BuiltInTags)
    => /\ n = 1
       /\ specs[0].argtype \in TableKinds(format)
       /\ specs[0].formatter = TableFormatter(format)
       /\ (format = <<"p">>) => (specs[0].flags = {FMT_FLAG_ALT})

BuiltInFormatters ==
  {"fmtlib_format_signed", "fmtlib_format_unsigned", "fmtlib_format_binary",
   "fmtlib_format_octal", "fmtlib_format_hex", "fmtlib_format_double",
   "fmtlib_format_string", "fmtlib_format_char"}

\* some registered entry carries the tag
Registered(tag) == \E i \in 1..Len(format_types) : format_types[i].type = tag

\* C19: after any sequence of fmtlib_register_type calls, also ones that
\* register a built-in tag, resolving a built-in tag yields what the built-in
\* table yields with nothing registered, a built-in formatter and its kind; a
\* registered entry is reached only for a tag that is not built-in.
C19_BuiltInsFirst ==
  pc = "resolved"
    => /\ format \in BuiltInTags
            => /\ n = 1
               /\ specs[0].formatter \in BuiltInFormatters
               /\ specs[0] = fmtlib_resolve_type(
                               <<>>, LibSpec(format, Zero64, {}, 0, 0, FMT_ALIGN_LEFT)).spec
       /\ specs[0].formatter \notin BuiltInFormatters \cup {"NULL"}
            => format \notin BuiltInTags

\* "d" registered first, and "d" still resolves to the signed formatter
C19_Witness ==
  /\ pc = "resolved" /\ format = <<"d">>
  /\ Len(format_types) >= 1 /\ format_types[1].type = <<"d">>
  /\ format_types[1].fn = "my_formatter"
  /\ specs[0].formatter = "fmtlib_format_signed" /\ specs[0].argtype = "INT32"

\* the first entry registered under the tag
FirstEntry(tag) ==
  format_types[CHOOSE i \in 1..Len(format_types) :
                 /\ format_types[i].type = tag
                 /\ \A j \in 1..(i - 1) : format_types[j].type # tag]

\* C20: the table never holds more than FMTLIB_MAX_TYPES entries, a
\* registration made when it is full changes neither the count nor any entry,
\* and every registered tag resolves to the formatter and kind it was
\* registered with, also once the table is full.
C20_RegistryBounded ==
  /\ [](Len(format_types) <= FMTLIB_MAX_TYPES)
  /\ []((pc = "resolved" /\ format \notin BuiltInTags /\ Registered(format))
          => /\ n = 1
             /\ specs[0].formatter = FirstEntry(format).fn
             /\ specs[0].argtype = FirstEntry(format).argtype)
  /\ [][Len(format_types) >= FMTLIB_MAX_TYPES => format_types' = format_types]_vars

\* a full table in which the tag registered first still resolves
C20_Witness ==
  /\ pc = "resolved" /\ format = <<"t", "e", "s", "t">>
  /\ Len(format_types) = FMTLIB_MAX_TYPES
  /\ format_types[1].type = <<"t", "e", "s", "t">>
  /\ format_types[1].fn = "my_formatter"
  /\ format_types[2].type = <<"t", "e", "s", "t">>
  /\ format_types[2].fn = "other_formatter"
  /\ n = 1 /\ specs[0].formatter = "my_formatter" /\ specs[0].argtype = "VOIDPTR"

(***************************************************************************)
(* The integer formatters with widths around FMTLIB_MAX_WIDTH, in a buffer *)
(* large enough to hold the whole field.                                   *)
(***************************************************************************)
WideCapacity == 512

WideWidths == {-1, 0, 4, FMTLIB_MAX_WIDTH, FMTLIB_MAX_WIDTH + 1, FMTLIB_MAX_WIDTH + 44}
WideValues == {SignExtend32(42), SignExtend32(-7)}
WideFlags == {{}, {FMT_FLAG_ZERO}, {FMT_FLAG_ALT}}

InitWide ==
  /\ pc = "lib"
  /\ format = <<>>
  /\ size = WideCapacity
  /\ buf = fmt_buffer(size)
  /\ max_args = 0
  /\ arg_index = 0
  /\ arg_count = 0
  /\ specs = [i \in {0} |-> ZeroSpec]
  /\ parsed_specs = [i \in {0} |-> ZeroParsed]
  /\ args = <<>> /\ cursor = 0 /\ loads = <<>> /\ n = 0 /\ single_pass = TRUE
  /\ loaded_arg_count = 0 /\ arg_sizes = <<>> /\ values = <<>>
  /\ spec_index = 0 /\ pass_two_index = 0 /\ pass_two_start = 0
  /\ ptr = 1 /\ index = 0 /\ format_types = <<>> /\ fault = {}

\* fmtlib_resolve_type(&spec); n = fmtlib_format(&buf, &spec), any width
LibWide ==
  /\ pc = "lib"
  /\ \E tag \in IntegerTags, v \in WideValues, fl \in WideFlags,
        w \in WideWidths, al \in Aligns :
       /\ format' = tag
       /\ specs' = [specs EXCEPT ![0] =
                      fmtlib_resolve_type(format_types,
                                          LibSpec(tag, v, fl, w, 0, al)).spec]
       /\ Emit(fmtlib_format(buf, specs'[0]))
  /\ pc' = "wide"
  /\ UNCHANGED <<size, max_args, args, cursor, loads, single_pass, arg_index,
                 arg_count, loaded_arg_count, arg_sizes, values, spec_index,
                 pass_two_index, pass_two_start, parsed_specs, ptr, index,
                 format_types, fault>>

NextWide == LibWide

SpecWide == InitWide /\ [][NextWide]_vars

\* the text a call writes into an empty buffer of the capacity
TextOf(w) == SubSeq(w.b.mem, 1, w.b.written)

\* the specifier with its width brought into 0..FMTLIB_MAX_WIDTH
WidthClamped(spec) ==
  [spec EXCEPT !.width = min(max(@, 0), FMTLIB_MAX_WIDTH)]

\* C21: a width beyond FMTLIB_MAX_WIDTH (256) is silently clamped: the output
\* of a built-in formatter for a width w > 256 is its output for width 256,
\* and a negative run-time width is treated as 0.
C21_WidthClamped ==
  pc = "wide"
    => Output = TextOf(fmtlib_format(fmt_buffer(size), WidthClamped(specs[0])))

(***************************************************************************)
(* fmtlib_format_string.  A char pointer is the number of a string of the  *)
(* caller, 0 for NULL; behind the zero byte of a string lies memory that   *)
(* is not the string's: g is the byte a read finds there.                  *)
(***************************************************************************)
MaxStrPrecision == 5

Strings == << <<"a", "b">>, <<"h", "e", "l", "l", "o">>, <<>> >>

Pointer(k) == <<k, 0, 0, 0>>

StrAt(v) == Strings[v[1]]

\* the len bytes a copy from str reads
BytesFrom(str, len, g) ==
  [i \in 1..len |-> IF i <= Len(str) THEN str[i]
                    ELSE IF i = Len(str) + 1 THEN NUL
                    ELSE g]

NullText == <<"(", "n", "u", "l", "l", ")">>

\* the text and length fmtlib_format_string settles on
StringText(spec, g) ==
  IF spec.value = Zero64 THEN NullText
  ELSE IF spec.precision = 0 THEN StrAt(spec.value)
  ELSE BytesFrom(StrAt(spec.value), AsSize(spec.precision), g)

fmtlib_format_string(b, spec, g) ==
  IF spec.width = 0 THEN fmt_buffer_write(b, StringText(spec, g))
  ELSE apply_alignment(b, spec, StringText(spec, g))

\* the reads of fmtlib_format_string behind the zero byte of the string
StringFault(spec) ==
  IF spec.value # Zero64 /\ spec.precision > Len(StrAt(spec.value)) + 1
  THEN {"read past the string"} ELSE {}

StringWidths == {0, 4}

\* fmtlib_resolve_type(&spec); n = fmtlib_format(&buf, &spec) for the type s
LibString ==
  /\ pc = "lib"
  /\ \E k \in 0..Len(Strings), p \in 0..MaxStrPrecision, w \in StringWidths,
        al \in Aligns, g \in GarbageBytes :
       /\ format' = <<"s">>
       /\ specs' = [specs EXCEPT ![0] =
                      fmtlib_resolve_type(format_types,
                                          LibSpec(<<"s">>, Pointer(k), {}, w, p, al)).spec]
       /\ Emit(fmtlib_format_string(buf, specs'[0], g))
       /\ fault' = fault \cup StringFault(specs'[0])
  /\ pc' = "string"
  /\ UNCHANGED <<size, max_args, args, cursor, loads, single_pass, arg_index,
                 arg_count, loaded_arg_count, arg_sizes, values, spec_index,
                 pass_two_index, pass_two_start, parsed_specs, ptr, index,
                 format_types>>

NextStr == LibString

SpecStr == InitInt /\ [][NextStr]_vars

\* C22: for the type s with a precision p > 0 and a non-null string of length
\* L the text taken is the first min(p, L) bytes of the string, and no byte at
\* or behind the zero byte of the string is read or emitted.
C22_StringPrecision ==
  (pc = "string" /\ specs[0].precision > 0 /\ specs[0].value # Zero64)
    => /\ Output = Take(AlignedText(Take(StrAt(specs[0].value), specs[0].precision),
                                    specs[0].width, specs[0].fill_char,
                                    specs[0].align), size - 1)
       /\ fault = {}

(***************************************************************************)
(* The double formatter on its own.                                        *)
(***************************************************************************)
\* the doubles formatted, each below 2^31 in magnitude or an infinity or NaN
Doubles ==
  {[sign |-> 0, exp |-> 1024, frac |-> <<1311, 3932, 3604, 4669>>],   \* 3.14
   [sign |-> 1, exp |-> 1024, frac |-> <<1311, 3932, 3604, 4669>>],   \* -3.14
   [sign |-> 0, exp |-> 1018, frac |-> <<6554, 3276, 1638, 4915>>],   \* 0.05
   [sign |-> 0, exp |-> 1022, frac |-> <<1638, 4915, 6553, 7372>>],   \* 0.95
   [sign |-> 0, exp |-> 1023, frac |-> <<3277, 1638, 4915, 409>>],   \* 1.05
   [sign |-> 0, exp |-> 1021, frac |-> <<0, 0, 0, 0>>],   \* 0.25
   [sign |-> 0, exp |-> 1022, frac |-> <<0, 0, 0, 4096>>],   \* 0.75
   [sign |-> 0, exp |-> 1020, frac |-> <<0, 0, 0, 0>>],   \* 0.125
   [sign |-> 0, exp |-> 1024, frac |-> <<0, 0, 0, 2048>>],   \* 2.5
   [sign |-> 0, exp |-> 1022, frac |-> <<1966, 5898, 1310, 8028>>],   \* 0.99
   [sign |-> 0, exp |-> 1028, frac |-> <<0, 0, 0, 2560>>],   \* 42.0
   [sign |-> 1, exp |-> 1022, frac |-> <<0, 0, 0, 0>>],   \* -0.5
   [sign |-> 0, exp |-> 0, frac |-> <<0, 0, 0, 0>>],   \* 0.0
   [sign |-> 1, exp |-> 0, frac |-> <<0, 0, 0, 0>>],   \* -0.0
   [sign |-> 0, exp |-> 2047, frac |-> <<0, 0, 0, 0>>],   \* inf
   [sign |-> 1, exp |-> 2047, frac |-> <<0, 0, 0, 0>>],   \* -inf
   [sign |-> 0, exp |-> 2047, frac |-> <<0, 0, 0, 4096>>]   \* nan
  }

DoubleTags == {<<"f">>, <<"F">>}
DoubleFlags == SUBSET {FMT_FLAG_ALT, FMT_FLAG_SIGN, FMT_FLAG_SPACE, FMT_FLAG_ZERO}
DoubleWidths == {0, 8}
DoublePrecisions == {0, 1, 2, 3, PRECISION_MAX, PRECISION_MAX + 1}

\* fmtlib_resolve_type(&spec); n = fmtlib_format(&buf, &spec) for f and F
LibDouble ==
  /\ pc = "lib"
  /\ \E tag \in DoubleTags, v \in Doubles, fl \in DoubleFlags,
        w \in DoubleWidths, p \in DoublePrecisions, al \in Aligns :
       /\ format' = tag
       /\ specs' = [specs EXCEPT ![0] =
                      fmtlib_resolve_type(format_types,
                                          LibSpec(tag, v, fl, w, p, al)).spec]
       /\ Emit(fmtlib_format(buf, specs'[0]))
  /\ pc' = "double"
  /\ UNCHANGED <<size, max_args, args, cursor, loads, single_pass, arg_index,
                 arg_count, loaded_arg_count, arg_sizes, values, spec_index,
                 pass_two_index, pass_two_start, parsed_specs, ptr, index,
                 format_types, fault>>

NextDbl == LibDouble

SpecDbl == InitInt /\ [][NextDbl]_vars

\* the precision format_double works with
PrecOf(spec) ==
  min(IF spec.precision > 0 THEN spec.precision ELSE PRECISION_DEFAULT, PRECISION_MAX)

IsFinite(v) == v.exp # ExpMax

\* round half to even: at a tie the fraction is incremented only when odd
HalfEven(whole, t, prec) ==
  IF t.delta = "half"
  THEN [whole |-> whole, frac |-> IF t.frac % 2 = 1 THEN t.frac + 1 ELSE t.frac]
  ELSE RoundDouble(whole, t, prec)

\* what fmtlib_format_double writes when whole and frac are rounded to r
DoubleTextRounded(spec, r) ==
  TextOf(AlignTemp(fmt_buffer(size), spec,
                   FD_rounded(spec, min(max(spec.width, 0), FMTLIB_MAX_WIDTH),
                              PrecOf(spec), r,
                              FD_sign(spec, fmt_buffer(TEMP_BUFFER_SIZE)))))

\* C23: float rounding is half-to-even: for a precision p in 1..9 and a value
\* whose scaled fraction is exactly halfway (delta == 0.5) the emitted fraction
\* is unchanged when it is even, 0 included, and incremented when it is odd;
\* for delta > 0.5 it is incremented and for delta < 0.5 it is unchanged.
C23_HalfToEven ==
  (/\ pc = "double"
   /\ IsFinite(specs[0].value) /\ ~IsZero(specs[0].value)
   /\ specs[0].precision \in 1..PRECISION_MAX)
    => Output = DoubleTextRounded(specs[0],
                  HalfEven(WholeOf(specs[0].value),
                           TmpOf(specs[0].value, specs[0].precision),
                           specs[0].precision))

SignBytes == {"-", "+", " "}

\* the one sign byte in front of the number, if any
SignOf(spec) ==
  IF spec.value.sign = 1 THEN <<"-">>
  ELSE IF FMT_FLAG_SIGN \in spec.flags THEN <<"+">>
  ELSE IF FMT_FLAG_SPACE \in spec.flags THEN <<" ">>
  ELSE <<>>

\* C25: the float formatter emits at most one sign byte in front of the
\* number: '-' when the value is negative, whatever the SIGN and SPACE flags
\* are, else '+' when SIGN is set, else ' ' when SPACE is set, else nothing.
\* Read on the calls where the number starts the output: no width, and room
\* for the whole number.
C25_OneSign ==
  (/\ pc = "double" /\ size = 48 /\ specs[0].width = 0
   /\ ~IsZero(specs[0].value) /\ ~IsNan(specs[0].value))
    => /\ SubSeq(Output, 1, Len(SignOf(specs[0]))) = SignOf(specs[0])
       /\ Output[Len(SignOf(specs[0])) + 1] \notin SignBytes

\* frac written with leading zeros in prec digits
RECURSIVE FracDigits(_, _)
FracDigits(frac, prec) ==
  IF prec = 0 THEN <<>>
  ELSE Append(FracDigits(frac \div 10, prec - 1), decimal_format.digits[(frac % 10) + 1])

\* a fraction that reached 10^prec carried into the whole part
Carried(r, prec) ==
  IF r.frac >= 10 ^ prec THEN [whole |-> r.whole + 1, frac |-> r.frac - 10 ^ prec]
  ELSE r

\* whole, the point and the prec digits of the fraction
PointText(r, prec) ==
  u64_to_str(U64Of(r.whole), decimal_format) \o <<".">> \o FracDigits(r.frac, prec)

\* C26: for a finite non-zero value with a precision p in 1..9 and a decimal
\* point written, the text behind the '.' is exactly p digits: the rounded
\* fraction with leading zeros, a fraction that reaches 10^p being carried into
\* the whole part in every rounding case, so that the output read back is
\* whole + frac / 10^p.  Read on the calls with no sign, no flag and no width,
\* with room for the whole number.
C26_FractionDigits ==
  (/\ pc = "double" /\ size = 48 /\ specs[0].width = 0
   /\ IsFinite(specs[0].value) /\ ~IsZero(specs[0].value)
   /\ specs[0].value.sign = 0 /\ specs[0].flags \subseteq {FMT_FLAG_UPPER}
   /\ specs[0].precision \in 1..PRECISION_MAX)
    => Output = PointText(Carried(RoundDouble(WholeOf(specs[0].value),
                                              TmpOf(specs[0].value, specs[0].precision),
                                              specs[0].precision),
                                  specs[0].precision),
                          specs[0].precision)

(***************************************************************************)
(* The counters of parse_fmt_spec                                          *)
(***************************************************************************)
\* the specifier takes its precision from an argument: ".*" or ".*N"
StarPrecision(f) == \E i \in 1..(Len(f) - 1) : f[i] = "." /\ f[i + 1] = "*"

\* the largest of the value, width and precision indices of the specifier f
\* parsed into the record p
MaxIndexOf(f, p) ==
  max(max(p.index, IF p.width_is_index THEN p.width_or_index ELSE 0),
      IF StarPrecision(f) THEN p.precision_or_index ELSE 0)

\* C24: a call of parse_fmt_spec that marks the specifier invalid leaves the
\* implicit index counter and the high-water argument count unchanged, even
\* when a '*' had taken an implicit index before the error; a call that finds
\* the specifier valid makes the count max(old, 1 + the largest of the value,
\* width and precision indices), and the count never decreases.
C24_ParserCounters ==
  [][(pc = "lib" /\ pc' = "parsed")
       => /\ (~parsed_specs'[0].valid)
               => (arg_index' = arg_index /\ arg_count' = arg_count)
          /\ parsed_specs'[0].valid
               => (arg_count' = max(arg_count, 1 + MaxIndexOf(format', parsed_specs'[0])))
          /\ arg_count' >= arg_count]_vars

(***************************************************************************)
(* The 32-bit unsigned tags                                                *)
(***************************************************************************)
\* the 32-bit argument as a 64-bit number: the upper half is zero
Low32(x) == <<x[1], x[2], 0, 0>>

\* C27: for the 32-bit unsigned tags the digits emitted denote exactly the
\* 32-bit argument passed, also for the values from 2^31 on (the negative
\* ints of the caller): the argument is not sign-extended into the 64-bit
\* value slot, so the number printed is below 2^32.
C27_Unsigned32 ==
  \A v \in FieldInts :
    /\ Called(<<"{", ":", "u", "}">>, v)
         => Output = u64_to_str(Low32(SignExtend32(v[1])), decimal_format)
    /\ Called(<<"{", ":", "X", "}">>, v)
         => Output = u64_to_str(Low32(SignExtend32(v[1])), hex_upper_format)

(***************************************************************************)
(* The type field of fmt_spec_t                                            *)
(***************************************************************************)
TypeFieldFaults == {"store past spec->type", "read past spec->type"}

\* C28: for every template the type tag copied into a specifier record is at
\* most 16 bytes and its zero byte is stored inside the 17-byte field: a type
\* text longer than 16 bytes causes no store outside the field and no read
\* past it when the tag is emitted.
C28_TypeFieldBounded ==
  /\ \A i \in DOMAIN specs : specs[i].type_len <= FMTLIB_MAX_TYPE_LEN
  /\ fault \cap TypeFieldFaults = {}

====
